---------------------------- MODULE Spec2Model ----------------------------
(***************************************************************************)
(* Model of the ontology tools: the traversal tool (src/getbranch.py),     *)
(* the search tool (src/OntoSearch.py) and the batch editor (src/app.py).  *)
(*                                                                         *)
(* The document is the sequence of owl:Class elements of the parsed OWL    *)
(* file, in document order.  For the traversal tool a class element        *)
(* carries its rdf:about attribute, the text of its Mendel_ID element, the *)
(* text of its rdfs:label element and the rdf:resource values of its       *)
(* rdfs:subClassOf children, in element order.                             *)
(*                                                                         *)
(* The two button handlers ('Extract Children', 'Extract Parents') loop    *)
(* over the requested identifiers; for each one the graph is rebuilt from  *)
(* the document and the recursive traversal is run.  The recursion is      *)
(* modelled with an explicit stack of frames, one action per loop          *)
(* iteration or return of get_descendants / get_ancestor_paths.            *)
(*                                                                         *)
(* For the search tool and the batch editor a str is the sequence of its   *)
(* characters, and a class element carries its child elements with their   *)
(* text; one action is one iteration of the loop over the classes of the   *)
(* document or over the rows of the sheet.                                 *)
(*                                                                         *)
(* An uploaded ZIP archive is the sequence of its members, each a file     *)
(* name and the classes of its content.                                    *)
(***************************************************************************)
EXTENDS Integers, Sequences, FiniteSets, TLC

\* ------------------------------------------------------------------ bounds
\* Largest number of rdfs:subClassOf elements in a generated document.
MaxEdges == 4
\* Largest number of identifiers typed into the '||'-separated input of
\* a request that is run against the small documents (see SmallEdges).
MaxReqs == 3
\* Cap on the depth of the recursion stack of a traversal.
MaxDepth == 7
\* Largest length of the text of a generated Codes or Synonyms element.
MaxText == 3
\* Largest number of classes of a document built from the sample classes.
MaxClasses == 2
\* Largest number of rows of an Excel sheet.
MaxRows == 2
\* Largest number of applications of one batch in a row.
MaxRuns == 2
\* Files in an uploaded archive.
MaxFiles == 2

\* ------------------------------------------------------ absent values
NoAbout == "NoAbout"     \* class element without rdf:about (or empty)
NoId    == "NoId"        \* no Mendel_ID element, or one without text
NoLabel == "NoLabel"     \* no rdfs:label element, or one without text
NoRes   == "NoRes"       \* subClassOf element without rdf:resource

\* ------------------------------------------------ sequence helpers
Last(s) == s[Len(s)]
Front(s) == SubSeq(s, 1, Len(s) - 1)
Range(s) == {s[i] : i \in 1..Len(s)}
Reverse(s) == [i \in 1..Len(s) |-> s[Len(s) + 1 - i]]

\* --------------------------------------------------- the document family
\* rdf:about, Mendel_ID text and rdfs:label text of the class elements of a
\* generated document, by position in document order.
Abouts == <<"u1", "u2", "u3", "u4">>
Mids   == <<"m1", "m2", "m3", "m4">>
Labels == <<"L1", "L2", "L3", "L4">>
\* A resource that is the rdf:about of no class element of the document
\* (an import from another ontology).
ExtRes == "ext"
TargetOrder == Abouts \o <<ExtRes>>
NodeIdx == 1..Len(Abouts)
\* A candidate subClassOf element: <<position of the class, rdf:resource>>.
CandEdges == NodeIdx \X Range(TargetOrder)

\* The candidates whose resource is the rdf:about of a class of the document.
InDocEdges == NodeIdx \X Range(Abouts)

\* The sets of at most k candidates out of cand.
RECURSIVE EdgeSets(_, _)
EdgeSets(k, cand) ==
  IF k = 0 THEN {{}}
  ELSE LET S == EdgeSets(k - 1, cand)
       IN  S \cup {s \cup {e} : s \in S, e \in cand}

\* The subClassOf resources of class i, in element order.
SubsOf(E, i, rev) ==
  LET ord == IF rev THEN Reverse(TargetOrder) ELSE TargetOrder
  IN  SelectSeq(ord, LAMBDA t : <<i, t>> \in E)

\* Variations of the identifier elements:
\*   plain    every class has its own Mendel_ID
\*   noid     the second class has no Mendel_ID text
\*   dup      the third class carries the Mendel_ID of the second class
\*   noabout  the second class has no rdf:about
Shapes == {"plain", "noid", "dup", "noabout"}

MkDoc(E, rev, shape) ==
  [i \in NodeIdx |->
     [about |-> IF shape = "noabout" /\ i = 2 THEN NoAbout ELSE Abouts[i],
      mid   |-> IF shape = "noid" /\ i = 2 THEN NoId
                ELSE IF shape = "dup" /\ i = 3 THEN Mids[2]
                ELSE Mids[i],
      label |-> Labels[i],
      subs  |-> SubsOf(E, i, rev)]]

\* Documents with at most k subClassOf elements out of cand.
DocsUpTo(k, cand, shapes) ==
  {MkDoc(E, rev, sh) : E \in EdgeSets(k, cand), rev \in BOOLEAN, sh \in shapes}

\* ------------------------------------------------------- graph builder
\* Mutant of Indexed: a class with an rdf:about is entered into the maps
\* whether or not it has a Mendel_ID.
IndexedByAbout(n) == n.about # NoAbout

\* A class element that the first pass enters into its maps: it has an
\* rdf:about ("if not about: continue") and a Mendel_ID element with text.
Indexed(n) == n.about # NoAbout /\ n.mid # NoId

\* mendel_id_to_node after the first i class elements (identifier -> position
\* of the class element): a later class with the same Mendel_ID replaces the
\* stored one.
RECURSIVE MendelIdToNodeUpTo(_, _)
MendelIdToNodeUpTo(d, i) ==
  IF i = 0 THEN <<>>
  ELSE LET prev == MendelIdToNodeUpTo(d, i - 1)
       IN  IF Indexed(d[i]) THEN (d[i].mid :> i) @@ prev ELSE prev

\* Mutant of MendelIdToNode: the first class with an identifier is kept.
MendelIdToNodeFirst(d) ==
  LET m == MendelIdToNodeUpTo(d, Len(d))
  IN  [id \in DOMAIN m |->
         CHOOSE i \in 1..Len(d) :
           /\ Indexed(d[i]) /\ d[i].mid = id
           /\ \A j \in 1..(i - 1) : ~(Indexed(d[j]) /\ d[j].mid = id)]

MendelIdToNode(d) == MendelIdToNodeUpTo(d, Len(d))

\* about_to_mendel_id after the first i class elements.
RECURSIVE AboutToMendelIdUpTo(_, _)
AboutToMendelIdUpTo(d, i) ==
  IF i = 0 THEN <<>>
  ELSE LET prev == AboutToMendelIdUpTo(d, i - 1)
       IN  IF Indexed(d[i]) THEN (d[i].about :> d[i].mid) @@ prev ELSE prev

AboutToMendelId(d) == AboutToMendelIdUpTo(d, Len(d))

\* The keys of mendel_id_to_node in dict order: the order in which the
\* identifiers were first inserted.
RECURSIVE KeyOrderUpTo(_, _)
KeyOrderUpTo(d, i) ==
  IF i = 0 THEN <<>>
  ELSE LET prev == KeyOrderUpTo(d, i - 1)
       IN  IF Indexed(d[i]) /\ d[i].mid \notin Range(prev)
           THEN Append(prev, d[i].mid)
           ELSE prev

KeyOrder(d) == KeyOrderUpTo(d, Len(d))

\* Identifiers that mendel_id_to_node holds a class for.
KnownIds(d) == DOMAIN MendelIdToNode(d)

\* Mutant of Resolved: the loop over the subClassOf elements of a class ends
\* at the first element that does not resolve.
ResolvedUntilDangling(n, a2m) ==
  LET bad == {j \in 1..Len(n.subs) : ~(n.subs[j] # NoRes /\ n.subs[j] \in DOMAIN a2m)}
      upto == IF bad = {} THEN Len(n.subs)
              ELSE (CHOOSE j \in bad : \A k \in bad : j <= k) - 1
  IN  [j \in 1..upto |-> <<n.mid, a2m[n.subs[j]]>>]

\* The <<child id, parent id>> pairs that one class element contributes in
\* the second pass, in element order: a subClassOf element without
\* resource, or whose resource is not in about_to_mendel_id, contributes
\* nothing.
Resolved(n, a2m) ==
  LET sel == SelectSeq(n.subs, LAMBDA r : r # NoRes /\ r \in DOMAIN a2m)
  IN  [j \in 1..Len(sel) |-> <<n.mid, a2m[sel[j]]>>]

\* The pairs appended by the second pass over the first k values of
\* mendel_id_to_node, in the order of the appends.
RECURSIVE SecondPassUpTo(_, _)
SecondPassUpTo(d, k) ==
  IF k = 0 THEN <<>>
  ELSE SecondPassUpTo(d, k - 1)
         \o Resolved(d[MendelIdToNode(d)[KeyOrder(d)[k]]], AboutToMendelId(d))

SecondPass(d) == SecondPassUpTo(d, Len(KeyOrder(d)))

\* The dict built by d.setdefault(e[key], []).append(e[val]) over the pairs
\* e of edges, in order.
Grouped(edges, key, val) ==
  [x \in {edges[j][key] : j \in 1..Len(edges)} |->
     LET sel == SelectSeq(edges, LAMBDA e : e[key] = x)
     IN  [j \in 1..Len(sel) |-> sel[j][val]]]

\* Mutant of ParentToChildren: the lists are keyed by the child.
ParentToChildrenByChild(d) == Grouped(SecondPass(d), 1, 2)

\* parent_to_children of extract_children
ParentToChildren(d) == Grouped(SecondPass(d), 2, 1)

\* Mutant of ChildToParents: the list of a child is overwritten by each
\* append, so that only its last parent is kept.
ChildToParentsLast(d) ==
  LET g == Grouped(SecondPass(d), 1, 2)
  IN  [c \in DOMAIN g |-> <<g[c][Len(g[c])]>>]

\* child_to_parents of extract_parents
ChildToParents(d) == Grouped(SecondPass(d), 1, 2)

\* Mutant of DictGet: d[key], which raises KeyError for a missing key.
DictGetStrict(d, key) ==
  [err |-> key \notin DOMAIN d, val |-> IF key \in DOMAIN d THEN d[key] ELSE <<>>]

\* d.get(key, []) : never raises.  err models a KeyError reaching the handler.
DictGet(d, key) ==
  [err |-> FALSE, val |-> IF key \in DOMAIN d THEN d[key] ELSE <<>>]

\* label_text of a class element
LabelText(n) == IF n.label = NoLabel THEN "No label" ELSE n.label

\* ------------------------------------------------------------- requests
\* An identifier that no class of a generated document carries.
AbsentId == "m9"
ReqIds == Range(Mids) \cup {AbsentId}

RECURSIVE SeqsUpTo(_, _)
SeqsUpTo(k, S) ==
  IF k = 0 THEN {<<>>}
  ELSE LET T == SeqsUpTo(k - 1, S)
       IN  T \cup {Append(t, x) : t \in T, x \in S}

\* ---------------------------------------------------------------- state
VARIABLES
  doc,          \* the parsed document (root)
  op,           \* which button was pressed: "children" or "parents"
  reqs,         \* branch_root_ids / parent_root_ids
  idx,          \* position of the handler's for loop in reqs
  pc,           \* "loop", "descend", "ascend" or "done"
  idnode,       \* mendel_id_to_node of the running call (id -> class position)
  adj,          \* parent_to_children or child_to_parents of the running call
  stack,        \* recursion stack: frames [id, i], i = next list position
  collected,    \* collected_ids of extract_children
  recursed,     \* number of recursive calls get_descendants(id, ..) (line 62)
  path,         \* current_path of extract_parents
  paths,        \* all_paths of extract_parents
  visited,      \* visited of extract_parents
  branch_data,  \* return value of the last extract_children call
  parent_data,  \* return value of the last extract_parents call
  all_data,     \* all_branch_data / all_parent_data, one block per request
  warnings,     \* identifiers the handler warned about
  outcome       \* what the handler showed: "none", "table", "warning", "error"

\* State of the search tool (src/OntoSearch.py) and of the batch editor
\* (src/app.py).
VARIABLES
  onto,         \* the parsed ontology: its Class elements in document order
  tool,         \* the running pass: "none", a search type, a batch operation
                \* or "sidebar" (the upload of the traversal tool)
  tpc,          \* "idle", "scan" (inside the for loop) or "done"
  pos,          \* position of the for loop (class of a search or an update
                \* pass, row of the insert-new-class batch)
  input,        \* the pieces of the search input between '||', or the rows
                \* of the Excel sheet
  extracted,    \* codes_list / synonyms of the class the loop looked at last
  results,      \* results of the search pass
  logs,         \* logs of the batch operation
  tout,         \* "none", "table", "info", "document" (what is shown or
                \* returned), "success" (a file was saved), "error"
  upload,       \* the classes of the uploaded OWL file of a batch operation
  runs          \* how often the batch was applied, each time to the document
                \* that the application before it returned

\* The uploaded ZIP archive and the directory of saved OWL files.
VARIABLES
  archive,      \* the files of the archive uploaded last, in namelist() order
  saved         \* UPLOAD_DIR of the traversal tool: the saved files, one
                \* for each file name

\* The state of the traversal tool.
branchVars == <<doc, op, reqs, idx, pc, idnode, adj, stack, collected, recursed,
                path, paths, visited, branch_data, parent_data, all_data,
                warnings, outcome>>
\* The state of the search tool and of the batch editor.
toolVars == <<onto, tool, tpc, pos, input, extracted, results, logs, tout,
              upload, runs>>

\* The archive and the upload directory.
zipVars == <<archive, saved>>

vars == <<doc, op, reqs, idx, pc, idnode, adj, stack, collected, recursed,
          path, paths, visited, branch_data, parent_data, all_data, warnings,
          outcome, onto, tool, tpc, pos, input, extracted, results, logs, tout,
          upload, runs, archive, saved>>

\* Documents with every identifier in place and every reference resolved:
\* all graphs of at most MaxEdges edges over the four classes, self-loops
\* and cycles included.
RichDocs == DocsUpTo(MaxEdges, InDocEdges, {"plain"})

\* Documents with a missing or repeated identifier, a missing rdf:about or a
\* reference that leaves the document.
SmallEdges == MaxEdges - 2
VariantDocs == DocsUpTo(SmallEdges, CandEdges, Shapes)

\* Documents against which requests of several identifiers are run.
MultiEdges == {<<2, "u1">>, <<3, "u1">>, <<3, "u2">>, <<1, "u3">>, <<4, "u4">>}
MultiDocs == {MkDoc(E, FALSE, "plain") : E \in SUBSET MultiEdges}
MultiReqIds == {"m1", "m2", AbsentId}

\* Dense graphs: every subset of these subClassOf elements, among them
\* self-loops, cycles of two, three and four classes, and diamonds.
DenseEdges ==
  {<<2, "u1">>, <<3, "u2">>, <<1, "u3">>, <<1, "u2">>, <<4, "u4">>,
   <<4, "u1">>, <<3, "u1">>, <<1, "u4">>}
DenseDocs == {MkDoc(E, rev, "plain") : E \in SUBSET DenseEdges, rev \in BOOLEAN}

\* The maps that the two passes build, looked up in a table for the documents
\* of the fair specification and computed for the others.  The table holds
\* exactly what the operators compute; it only saves evaluating them again
\* in every state in which the fairness condition is evaluated.
FairDocs == DenseDocs \cup MultiDocs
IdNodeTable == [d \in FairDocs |-> MendelIdToNode(d)]
ChildrenTable == [d \in FairDocs |-> ParentToChildren(d)]
ParentsTable == [d \in FairDocs |-> ChildToParents(d)]
IdNodeOf(d) == IF d \in FairDocs THEN IdNodeTable[d] ELSE MendelIdToNode(d)
ChildrenOf(d) == IF d \in FairDocs THEN ChildrenTable[d] ELSE ParentToChildren(d)
ParentsMapOf(d) == IF d \in FairDocs THEN ParentsTable[d] ELSE ChildToParents(d)

\* The page is loaded: no OWL file is selected and no button was pressed.
Init ==
  /\ doc = <<>>
  /\ reqs = <<>>
  /\ op = "none"
  /\ idx = 1
  /\ pc = "idle"
  /\ idnode = <<>>
  /\ adj = <<>>
  /\ stack = <<>>
  /\ collected = {}
  /\ recursed = [m \in Range(Mids) |-> 0]
  /\ path = <<>>
  /\ paths = <<>>
  /\ visited = {}
  /\ branch_data = {}
  /\ parent_data = <<>>
  /\ all_data = <<>>
  /\ warnings = <<>>
  /\ outcome = "none"
  /\ onto = <<>>
  /\ tool = "none"
  /\ tpc = "idle"
  /\ pos = 1
  /\ input = <<>>
  /\ extracted = <<>>
  /\ results = <<>>
  /\ logs = <<>>
  /\ tout = "none"
  /\ upload = <<>>
  /\ runs = 0
  /\ archive = <<>>
  /\ saved = {}

\* A button is pressed with identifiers typed in and a saved file selected:
\* the file is parsed (root = tree.getroot()) and the for loop is entered.
Press(d, rs) ==
  /\ doc' = d
  /\ reqs' = rs
  /\ op' \in {"children", "parents"}
  /\ pc' = "loop"
  /\ UNCHANGED <<zipVars, toolVars, idx, idnode, adj, stack, collected, recursed, path,
                 paths,
                 visited, branch_data, parent_data, all_data, warnings, outcome>>

PressButton ==
  /\ pc = "idle"
  /\ \/ \E d \in RichDocs \cup VariantDocs : \E a \in ReqIds : Press(d, <<a>>)
     \/ \E d \in MultiDocs : \E rs \in SeqsUpTo(MaxReqs, MultiReqIds) \ {<<>>} :
          Press(d, rs)

PressButtonDense ==
  /\ pc = "idle"
  /\ \/ \E d \in DenseDocs : \E a \in ReqIds : Press(d, <<a>>)
     \/ \E d \in MultiDocs : \E rs \in SeqsUpTo(MaxReqs, MultiReqIds) \ {<<>>} :
          Press(d, rs)

travVars == <<stack, collected, recursed, path, paths, visited>>
docVars == <<doc, op, reqs>>
handlerVars == <<idx, branch_data, parent_data, all_data, warnings, outcome>>

\* --------------------------------------------------- extract_children
\* Mutants of NewCollected: the set of an earlier call is kept; the root is
\* entered as collected from the start.
NewCollectedStale(old, root) == old
NewCollectedSeeded(old, root) == {root}

\* collected_ids = set()
NewCollected(old, root) == {}

\* Mutant of NotCollected: the guard is lost.
NotCollectedAlways(child, coll) == TRUE

\* if child_id not in collected
NotCollected(child, coll) == child \notin coll

\* Lines 16-66 up to the first call of get_descendants.
BeginChildren ==
  /\ pc = "loop" /\ op = "children" /\ idx <= Len(reqs)
  /\ idnode' = IdNodeOf(doc)
  /\ adj' = ChildrenOf(doc)
  /\ collected' = NewCollected(collected, reqs[idx])
  /\ recursed' = [m \in Range(Mids) |-> 0]
  /\ stack' = <<[id |-> reqs[idx], i |-> 1]>>
  /\ pc' = "descend"
  /\ UNCHANGED <<zipVars, toolVars, docVars, handlerVars, path, paths, visited>>

\* An exception leaves the handler's try block: st.error, nothing else shown.
Raise ==
  /\ pc' = "done"
  /\ outcome' = "error"
  /\ stack' = <<>>
  /\ UNCHANGED <<zipVars, toolVars, docVars, idx, idnode, adj, collected, recursed, path,
                 paths,
                 visited, branch_data, parent_data, all_data, warnings>>

\* One iteration of "for child_id in children_ids".
DescendStep ==
  /\ pc = "descend" /\ stack # <<>>
  /\ LET top == Last(stack)
         g   == DictGet(adj, top.id)
     IN  /\ ~g.err
         /\ top.i <= Len(g.val)
         /\ LET child == g.val[top.i]
                adv   == [stack EXCEPT ![Len(stack)].i = @ + 1]
            IN  IF NotCollected(child, collected)
                THEN /\ Len(stack) < MaxDepth
                     /\ collected' = collected \cup {child}
                     /\ recursed' = [recursed EXCEPT ![child] = @ + 1]
                     /\ stack' = Append(adv, [id |-> child, i |-> 1])
                ELSE /\ stack' = adv
                     /\ UNCHANGED <<collected, recursed>>
  /\ UNCHANGED <<zipVars, toolVars, docVars, handlerVars, pc, idnode, adj, path, paths,
                 visited>>

\* The loop of a get_descendants call is exhausted: return collected.
DescendReturn ==
  /\ pc = "descend" /\ stack # <<>>
  /\ LET top == Last(stack)
         g   == DictGet(adj, top.id)
     IN  IF g.err THEN Raise
         ELSE /\ top.i > Len(g.val)
              /\ stack' = Front(stack)
              /\ UNCHANGED <<zipVars, toolVars, docVars, handlerVars, pc, idnode, adj,
                             collected,
                             recursed, path, paths, visited>>

\* "Collect Mendel_IDs and Labels": the returned list, as the set of its rows
\* (the list follows the iteration order of a Python set, which is unspecified).
ChildrenRows(d, idn, coll) ==
  {<<id, LabelText(d[idn[id]])>> : id \in {c \in coll : c \in DOMAIN idn}}

\* extract_children returns; lines 200-206 of the handler.
FinishChildren ==
  /\ pc = "descend" /\ stack = <<>>
  /\ LET rows == ChildrenRows(doc, idnode, collected)
     IN  /\ branch_data' = rows
         /\ IF rows # {}
            THEN /\ all_data' = Append(all_data, [root |-> reqs[idx], rows |-> rows])
                 /\ UNCHANGED warnings
            ELSE /\ warnings' = Append(warnings, reqs[idx])
                 /\ UNCHANGED all_data
  /\ idx' = idx + 1
  /\ pc' = "loop"
  /\ UNCHANGED <<zipVars, toolVars, docVars, idnode, adj, travVars, parent_data, outcome>>

\* ---------------------------------------------------- extract_parents
\* Mutant of OnBranch: the guard is lost.
OnBranchNever(id, vis) == FALSE

\* if current_id in visited: return
OnBranch(id, vis) == id \in vis

\* Mutant of IsRoot: a path is recorded at every identifier.
IsRootAlways(parents) == TRUE

\* if not parents: "Reached a root"
IsRoot(parents) == parents = <<>>

\* Mutant of Leave: an identifier stays in visited for the other branches.
LeaveNever(vis, id) == vis

\* visited.remove(current_id)
Leave(vis, id) == vis \ {id}

\* Lines 80-138 up to the first call of get_ancestor_paths.
BeginParents ==
  /\ pc = "loop" /\ op = "parents" /\ idx <= Len(reqs)
  /\ idnode' = IdNodeOf(doc)
  /\ adj' = ParentsMapOf(doc)
  /\ paths' = <<>>
  /\ visited' = {}
  /\ path' = <<>>
  /\ stack' = <<[id |-> reqs[idx], i |-> 0]>>
  /\ pc' = "ascend"
  /\ UNCHANGED <<zipVars, toolVars, docVars, handlerVars, collected, recursed>>

\* A call returns to its caller, which runs current_path.pop() (line 133);
\* the outermost call returns to extract_parents.
ReturnToCaller ==
  /\ stack' = Front(stack)
  /\ path' = IF Len(stack) > 1 THEN Front(path) ELSE path

\* Entry of get_ancestor_paths: lines 122-128 (and 134 when a root is reached).
AscendEnter ==
  /\ pc = "ascend" /\ stack # <<>> /\ Last(stack).i = 0
  /\ LET top == Last(stack)
         g   == DictGet(adj, top.id)
     IN  IF OnBranch(top.id, visited)
         THEN /\ ReturnToCaller
              /\ UNCHANGED <<zipVars, toolVars, docVars, handlerVars, pc, idnode, adj,
                             collected,
                             recursed, paths, visited>>
         ELSE IF g.err THEN Raise
         ELSE IF IsRoot(g.val)
         THEN /\ paths' = Append(paths, path)
              /\ visited' = Leave(visited \cup {top.id}, top.id)
              /\ ReturnToCaller
              /\ UNCHANGED <<zipVars, toolVars, docVars, handlerVars, pc, idnode, adj,
                             collected,
                             recursed>>
         ELSE /\ visited' = visited \cup {top.id}
              /\ stack' = [stack EXCEPT ![Len(stack)].i = 1]
              /\ UNCHANGED <<zipVars, toolVars, docVars, handlerVars, pc, idnode, adj,
                             collected,
                             recursed, path, paths>>

\* One iteration of "for parent_id in parents": lines 130-132.
AscendStep ==
  /\ pc = "ascend" /\ stack # <<>>
  /\ LET top == Last(stack)
         g   == DictGet(adj, top.id)
     IN  /\ top.i >= 1
         /\ top.i <= Len(g.val)
         /\ Len(stack) < MaxDepth
         /\ path' = Append(path, g.val[top.i])
         /\ stack' = Append([stack EXCEPT ![Len(stack)].i = @ + 1],
                            [id |-> g.val[top.i], i |-> 0])
  /\ UNCHANGED <<zipVars, toolVars, docVars, handlerVars, pc, idnode, adj, collected,
                 recursed,
                 paths, visited>>

\* The loop over the parents is exhausted: line 134 and return.
AscendReturn ==
  /\ pc = "ascend" /\ stack # <<>>
  /\ LET top == Last(stack)
         g   == DictGet(adj, top.id)
     IN  /\ top.i >= 1
         /\ top.i > Len(g.val)
         /\ visited' = Leave(visited, top.id)
         /\ ReturnToCaller
  /\ UNCHANGED <<zipVars, toolVars, docVars, handlerVars, pc, idnode, adj, collected,
                 recursed,
                 paths>>

\* Mutant of PathOrder: the path is not reversed.
PathOrderKept(p) == p

\* path = path[::-1]
PathOrder(p) == Reverse(p)

\* Mutant of LevelAt: levels are counted from 1.
LevelAtOneBased(k) == k

\* enumerate(path): the level of the k-th element (k counted from 1)
LevelAt(k) == k - 1

\* for level, mendel_id in enumerate(path): rows <<id, label, level>> of the
\* identifiers that mendel_id_to_node holds a class for.
RECURSIVE LevelRows(_, _, _, _)
LevelRows(rp, k, d, idn) ==
  IF k > Len(rp) THEN <<>>
  ELSE LET rest == LevelRows(rp, k + 1, d, idn)
       IN  IF rp[k] \in DOMAIN idn
           THEN <<(<<rp[k], LabelText(d[idn[rp[k]]]), LevelAt(k)>>)>> \o rest
           ELSE rest

\* "Collect Mendel_IDs, Labels, and Levels": the list parents (lines 141-151).
RECURSIVE Leveled(_, _, _)
Leveled(ps, d, idn) ==
  IF ps = <<>> THEN <<>>
  ELSE LevelRows(PathOrder(Head(ps)), 1, d, idn) \o Leveled(Tail(ps), d, idn)

\* Mutant of KeepItem: nothing is removed.
KeepItemAlways(item, seen) == TRUE

\* if item[0] not in seen
KeepItem(item, seen) == item[1] \notin seen

\* "Remove duplicates while preserving order" (lines 153-161).
RECURSIVE UniqueFrom(_, _)
UniqueFrom(items, seen) ==
  IF items = <<>> THEN <<>>
  ELSE IF KeepItem(Head(items), seen)
       THEN <<Head(items)>> \o UniqueFrom(Tail(items), seen \cup {Head(items)[1]})
       ELSE UniqueFrom(Tail(items), seen)

UniqueParents(items) == UniqueFrom(items, {})

\* extract_parents returns; lines 249-255 of the handler.
FinishParents ==
  /\ pc = "ascend" /\ stack = <<>>
  /\ LET rows == UniqueParents(Leveled(paths, doc, idnode))
     IN  /\ parent_data' = rows
         /\ IF rows # <<>>
            THEN /\ all_data' = Append(all_data, [root |-> reqs[idx], rows |-> rows])
                 /\ UNCHANGED warnings
            ELSE /\ warnings' = Append(warnings, reqs[idx])
                 /\ UNCHANGED all_data
  /\ idx' = idx + 1
  /\ pc' = "loop"
  /\ UNCHANGED <<zipVars, toolVars, docVars, idnode, adj, travVars, branch_data, outcome>>

\* ------------------------------------------------------ end of handler
\* After the for loop: the table is shown if any block was appended,
\* else the "No data extracted" / "No parents found" warning.
EndLoop ==
  /\ pc = "loop" /\ idx > Len(reqs)
  /\ outcome' = IF all_data # <<>> THEN "table" ELSE "warning"
  /\ pc' = "done"
  /\ UNCHANGED <<zipVars, toolVars, docVars, idx, idnode, adj, travVars, branch_data,
                 parent_data,
                 all_data, warnings>>

\* The steps of a running handler.
Run ==
  \/ BeginChildren
  \/ DescendStep
  \/ DescendReturn
  \/ FinishChildren
  \/ BeginParents
  \/ AscendEnter
  \/ AscendStep
  \/ AscendReturn
  \/ FinishParents
  \/ EndLoop

Next == PressButton \/ Run

Spec == Init /\ [][Next]_vars

\* The handlers on the documents with a missing or repeated identifier, a
\* missing rdf:about or a reference that leaves the document.
PressButtonVariant ==
  /\ pc = "idle"
  /\ \E d \in VariantDocs : \E a \in ReqIds : Press(d, <<a>>)

NextVariant == PressButtonVariant \/ Run

VariantSpec == Init /\ [][NextVariant]_vars

NextDense == PressButtonDense \/ Run

\* The handler runs to completion once the button is pressed: the script is
\* single-threaded and nothing suspends a traversal.  Nothing is assumed
\* about the user pressing a button.
FairSpec == Init /\ [][NextDense]_vars /\ WF_vars(Run)

\* ===================================================================
\* Strings
\* ===================================================================
\* A Python str is the sequence of its characters.
Uppers == <<"A", "B", "C", "D", "E", "F", "G", "H", "I", "J", "K", "L", "M",
           "N", "O", "P", "Q", "R", "S", "T", "U", "V", "W", "X", "Y", "Z">>
Lowers == <<"a", "b", "c", "d", "e", "f", "g", "h", "i", "j", "k", "l", "m",
           "n", "o", "p", "q", "r", "s", "t", "u", "v", "w", "x", "y", "z">>
Digits == {"0", "1", "2", "3", "4", "5", "6", "7", "8", "9"}

\* str.lower()
LowerChar(c) ==
  IF \E i \in DOMAIN Uppers : Uppers[i] = c
  THEN Lowers[CHOOSE i \in DOMAIN Uppers : Uppers[i] = c]
  ELSE c
Lower(s) == [i \in 1..Len(s) |-> LowerChar(s[i])]

\* The characters that str.strip() removes from both ends.
IsSpace(c) == c \in {" ", "\t", "\n", "\r"}

\* str.strip()
Strip(s) ==
  LET keep == {i \in 1..Len(s) : ~IsSpace(s[i])}
  IN  IF keep = {} THEN <<>>
      ELSE SubSeq(s, CHOOSE i \in keep : \A j \in keep : i <= j,
                     CHOOSE i \in keep : \A j \in keep : j <= i)

\* str.split(sep) and re.split over single characters: the pieces of s
\* between the characters of seps, empty pieces included.  cur is the piece
\* being read, i the position of the scan.
RECURSIVE SplitFrom(_, _, _, _)
SplitFrom(s, seps, i, cur) ==
  IF i > Len(s) THEN <<cur>>
  ELSE IF s[i] \in seps THEN <<cur>> \o SplitFrom(s, seps, i + 1, <<>>)
  ELSE SplitFrom(s, seps, i + 1, Append(cur, s[i]))

Split(s, seps) == SplitFrom(s, seps, 1, <<>>)

\* sep.join(parts)
RECURSIVE Join(_, _)
Join(parts, sep) ==
  IF parts = <<>> THEN <<>>
  ELSE IF Len(parts) = 1 THEN parts[1]
  ELSE parts[1] \o sep \o Join(Tail(parts), sep)

\* s.replace(a, b) for single characters a and b
Replace(s, a, b) == [i \in 1..Len(s) |-> IF s[i] = a THEN b ELSE s[i]]

\* Mutant of StripAll: the pieces that are empty after trimming are kept.
StripAllKeepEmpty(pieces) == [i \in 1..Len(pieces) |-> Strip(pieces[i])]

\* [x.strip() for x in pieces if x.strip()]
StripAll(pieces) ==
  LET st == [i \in 1..Len(pieces) |-> Strip(pieces[i])]
  IN  SelectSeq(st, LAMBDA x : x # <<>>)

\* ===================================================================
\* Field extractor (src/OntoSearch.py)
\* ===================================================================
\* A child element of a class: elem.text is None for an element without
\* content ("notext"); "absent" stands for a class without the element.
Absent == [kind |-> "absent", text |-> <<>>]
NoText == [kind |-> "notext", text |-> <<>>]
Text(t) == [kind |-> "text", text |-> t]

\* Python's None and a str, as values of the same kind.
PyNone == [none |-> TRUE, str |-> <<>>]
Str(t) == [none |-> FALSE, str |-> t]

\* elem.text or ''
TextOrEmpty(e) == IF e.kind = "text" THEN e.text ELSE <<>>

\* Mutant of GetMendelId: a missing element raises as a text-less one does.
GetMendelIdRaising(cls) ==
  [err |-> cls.mid.kind # "text",
   val |-> IF cls.mid.kind = "text" THEN Str(Strip(cls.mid.text)) ELSE PyNone]

\* get_mendel_id: err stands for the AttributeError of None.strip().
GetMendelId(cls) ==
  [err |-> cls.mid.kind = "notext",
   val |-> IF cls.mid.kind = "text" THEN Str(Strip(cls.mid.text)) ELSE PyNone]

NoLabelText == <<"N", "o", " ", "l", "a", "b", "e", "l">>

\* get_class_label
GetClassLabel(cls) ==
  [err |-> cls.label.kind = "notext",
   val |-> IF cls.label.kind = "text" THEN Strip(cls.label.text) ELSE NoLabelText]

\* get_synonyms: the first Synonyms element only.
GetSynonyms(cls) ==
  IF cls.syns = <<>> THEN <<>>
  ELSE StripAll(Split(Replace(TextOrEmpty(cls.syns[1]), "\n", ";"), {";"}))

\* get_codes: every Codes element, in document order.
RECURSIVE CodesOfElems(_)
CodesOfElems(elems) ==
  IF elems = <<>> THEN <<>>
  ELSE StripAll(Split(TextOrEmpty(Head(elems)), {";", "\n"}))
         \o CodesOfElems(Tail(elems))

GetCodes(cls) == CodesOfElems(cls.codes)

\* ===================================================================
\* Search passes (src/OntoSearch.py)
\* ===================================================================
SearchTypes == {"synonym", "code", "relaxed", "semi"}

\* The classes that root.xpath('//owl0:Class') finds.
OwlClasses(d) == SelectSeq(d, LAMBDA c : c.tag = "owl")

\* [code.strip() for code in codes_input.split('||') if code.strip()]
SearchTerms(pieces) == StripAll(pieces)

IsAsciiAlnum(c) == c \in Range(Uppers) \cup Range(Lowers) \cup Digits

\* clean_code of the relaxed search: re.sub(r'[^A-Za-z0-9]', '', code).lower()
CleanRelaxed(code) == Lower(SelectSeq(code, IsAsciiAlnum))

\* clean_code of the semi-relaxed search: code.replace('.', '').lower()
CleanSemi(code) == Lower(SelectSeq(code, LAMBDA c : c # "."))

\* The key under which a search term is entered in cleaned_to_original,
\* search_phrases_lower or codes_lower.
TermKey(t, term) ==
  IF t = "relaxed" THEN CleanRelaxed(term)
  ELSE IF t = "semi" THEN CleanSemi(term)
  ELSE Lower(term)

\* code_value of a stored code: the text after the first ':' (the whole
\* entry when it has none), stripped.
CodeValue(entry) ==
  LET parts == Split(entry, {":"})
  IN  IF Len(parts) >= 2 THEN Strip(Join(Tail(parts), <<":">>)) ELSE Strip(entry)

\* The key that a stored synonym or code is looked up with.
StoredKey(t, entry) ==
  IF t \in {"relaxed", "semi"} THEN TermKey(t, CodeValue(entry)) ELSE Lower(entry)

\* The stored values of a class that the search type looks at.
StoredValues(t, cls) == IF t = "synonym" THEN GetSynonyms(cls) ELSE GetCodes(cls)

\* The values of vals that match a term: matched_codes, in list order.
MatchedValues(t, vals, terms) ==
  LET keys == {TermKey(t, terms[i]) : i \in 1..Len(terms)}
  IN  SelectSeq(vals, LAMBDA v : StoredKey(t, v) \in keys)

\* set(original_search_terms)
OriginalTerms(t, vals, terms) ==
  LET hit == {StoredKey(t, vals[i]) : i \in 1..Len(vals)}
  IN  {x \in Range(terms) : TermKey(t, x) \in hit}

\* An exception leaves the pass: no result is returned and main shows
\* "An error occurred".
ToolRaise ==
  /\ tpc' = "done"
  /\ tout' = "error"
  /\ results' = <<>>
  /\ UNCHANGED <<zipVars, branchVars, upload, runs, onto, tool, pos, input, extracted,
                 logs>>

\* The Search button is pressed: the archive is read and the document parsed.
StartSearch(d, t, pieces) ==
  /\ tpc = "idle"
  /\ onto' = d
  /\ tool' = t
  /\ input' = pieces
  /\ tpc' = "scan"
  /\ UNCHANGED <<branchVars, upload, runs, pos, extracted, results, logs, tout>>

\* One iteration of "for idx, cls in enumerate(classes)".
SearchClass ==
  /\ tpc = "scan" /\ tool \in SearchTypes
  /\ pos <= Len(OwlClasses(onto))
  /\ LET cls   == OwlClasses(onto)[pos]
         mid   == GetMendelId(cls)
         vals  == StoredValues(tool, cls)
         terms == SearchTerms(input)
         hits  == MatchedValues(tool, vals, terms)
         lab   == GetClassLabel(cls)
     IN  IF mid.err THEN ToolRaise
         ELSE IF vals = <<>> \/ hits = <<>>
         THEN /\ pos' = pos + 1
              /\ extracted' = vals
              /\ UNCHANGED <<zipVars, branchVars, upload, runs, onto, tool, tpc, input,
                             results,
                    logs, tout>>
         ELSE IF lab.err THEN ToolRaise
         ELSE /\ results' = Append(results,
                   [cls     |-> pos,
                    terms   |-> OriginalTerms(tool, vals, terms),
                    mid     |-> mid.val,
                    label   |-> lab.val,
                    all     |-> vals,
                    matched |-> IF tool \in {"relaxed", "semi"} THEN hits
                                ELSE <<>>,
                    matchedset |-> IF tool \in {"relaxed", "semi"} THEN {}
                                   ELSE Range(hits)])
              /\ pos' = pos + 1
              /\ extracted' = vals
              /\ UNCHANGED <<zipVars, branchVars, upload, runs, onto, tool, tpc, input,
                             logs, tout>>

\* The loop is over: results_df is returned and shown, or "No exact matches".
FinishSearch ==
  /\ tpc = "scan" /\ tool \in SearchTypes
  /\ pos > Len(OwlClasses(onto))
  /\ tpc' = "done"
  /\ tout' = IF results # <<>> THEN "table" ELSE "info"
  /\ UNCHANGED <<zipVars, branchVars, upload, runs, onto, tool, pos, input, extracted,
                 results, logs>>

\* ------------------------------------------- documents of the search tool
\* A class element of the ontology.  codes and syns hold the Codes and the
\* Synonyms elements of the class, in document order.
OntoClass(about, mid, label, codes, syns) ==
  [tag |-> "owl", about |-> about, mid |-> mid, label |-> label,
   subs |-> <<>>, codes |-> codes, syns |-> syns, code |-> Absent,
   cui |-> Absent]

\* The characters of the generated element texts.
TextAlphabet == {"A", "a", ".", ":", ";", " ", "\n"}
ShortTexts == SeqsUpTo(MaxText, TextAlphabet)

\* One class whose Codes and Synonyms elements both hold the text t.
OneClassDoc(t) ==
  <<OntoClass(<<"u", "1">>, Text(<<"m", "1">>), Text(<<"L", "1">>),
              <<Text(t)>>, <<Text(t)>> )>>

\* Classes with stored values in the usual forms, and classes with a
\* missing or empty element.
SampleClasses ==
  {OntoClass(<<"u", "1">>, Text(<<"m", "1">>), Text(<<"L", "1">>),
             <<Text(
       <<"I", "C", "D", "1", "0", ":", "A", "-", "1", "5", ".", "2">>)>>, <<Text(
       <<"T", "y", "p", "e", " ", "2", " ", "D", "i", "a", "b", "e", "t", "e", "s">>)>>),
   OntoClass(<<"u", "2">>, Text(<<" ", "m", "2">>), Text(<<"L", "2", " ">>),
             <<Text(
       <<"I", "C", "D", "1", "0", ":", " ", "A", "1", "5", ".", "2", ";", " ", "B", ":",
             "2", "0", "0", "\n", "C", ":", "3", "0", "0">>)>>, <<Text(
       <<"T", "2", "D", ";", "t", "y", "p", "e", " ", "2", " ", "d", "i", "a", "b", "e",
             "t", "e", "s", " ", "\n", " ", "S", "u", "g", "a", "r">>)>>),
   OntoClass(<<"u", "3">>, Absent, Absent,
             <<Text(
       <<"A", ":", "1", "0", "0", ";", " ", "B", ":", "2", "0", "0", "\n", "C", ":", "3",
             "0", "0">>), Text(
       <<" ", ";", "X", ":", "1", ":", "a", ".", "1", "5", "-", "2", "\n", "\n", "A",
             "1", "5", ".", "2">>)>>, <<Text(
       <<"T", "2", "D", ";", "t", "y", "p", "e", " ", "2", " ", "d", "i", "a", "b", "e",
             "t", "e", "s", " ", "\n", " ", "S", "u", "g", "a", "r">>), Text(
       <<"T", "y", "p", "e", " ", "2", " ", "D", "i", "a", "b", "e", "t", "e", "s">>)>>),
   OntoClass(<<"u", "4">>, NoText, Text(<<"L", "4">>),
             <<Text(
       <<"I", "C", "D", "1", "0", ":", "A", "-", "1", "5", ".", "2">>)>>, <<Text(
       <<"T", "y", "p", "e", " ", "2", " ", "D", "i", "a", "b", "e", "t", "e", "s">>)>>),
   OntoClass(<<"u", "5">>, Text(<<"m", "5">>), NoText,
             <<Text(
       <<"A", ":", "1", "0", "0", ";", " ", "B", ":", "2", "0", "0", "\n", "C", ":", "3",
             "0", "0">>)>>, <<Text(
       <<"T", "y", "p", "e", " ", "2", " ", "D", "i", "a", "b", "e", "t", "e", "s">>)>>),
   OntoClass(<<"u", "6">>, Text(<<"m", "6">>), Text(<<"L", "6">>), <<>>, <<>>),
   OntoClass(<<"u", "7">>, Text(<<"m", "7">>), Text(<<"L", "7">>),
             <<NoText>>, <<NoText>>)}

SampleDocs == SeqsUpTo(MaxClasses, SampleClasses) \ {<<>>}

\* Pieces of the search input between '||'.
SampleTerms ==
  {<<"a", "1", "5", "2">>,
   <<"A", "1", "5", ".", "2">>,
   <<"a", " ", "1", "5", " ", "2">>,
   <<"A", "-", "1", "5", ".", "2">>,
   <<"t", "y", "p", "e", " ", "2", " ", "d", "i", "a", "b", "e", "t", "e", "s">>,
   <<"T", "y", "p", "e", "2", "D", "i", "a", "b", "e", "t", "e", "s">>,
   <<"i", "c", "d", "1", "0", ":", "a", "-", "1", "5", ".", "2">>,
   <<"b", ":", "2", "0", "0">>,
   <<" ", "X", ":", "1", " ">>,
   <<" ", " ">>,
   <<"a">>,
   <<"A">>,
   <<".">>,
   <<"a", ".">>,
   <<":">>,
   <<"a", ":">>,
   <<"-">>,
   <<"a", "-">>}

\* The inputs of a search: one piece, or two.
SampleInputs ==
  {<<x>> : x \in SampleTerms}
    \cup {<<<<"a", "1", "5", "2">>, <<" ", " ">>>>, <<
       <<"t", "y", "p", "e", " ", "2", " ", "d", "i", "a", "b", "e", "t", "e", "s">>,
             <<"b", ":", "2", "0", "0">>>>, <<<<"a", "1", "5", "2">>, <<"A", "1", "5",
                   ".", "2">>>>}

PressSearch ==
  /\ tpc = "idle" /\ pc = "idle"
  /\ UNCHANGED zipVars
  /\ \E t \in SearchTypes : \E pieces \in SampleInputs :
       \/ \E x \in ShortTexts : StartSearch(OneClassDoc(x), t, pieces)
       \/ \E d \in SampleDocs : StartSearch(d, t, pieces)

SearchNext == PressSearch \/ SearchClass \/ FinishSearch

SearchSpec == Init /\ [][SearchNext]_vars

\* ===================================================================
\* Batch editor (src/app.py)
\* ===================================================================
\* A cell of the Excel sheet: NaN (an empty cell) or a string.
NaN == PyNone

\* str(x).strip() if pd.notna(x) and str(x).strip() != '' else None
CellValue(cell) ==
  IF cell.none \/ Strip(cell.str) = <<>> THEN PyNone ELSE Str(Strip(cell.str))

\* Mutant of HasLabel: the label is not stripped before it is tested.
HasLabelUnstripped(cell) == ~cell.none /\ cell.str # <<>>

\* if label:
HasLabel(cell) == ~CellValue(cell).none

\* The common part "http://www.co-ode.org/ontologies/ont.owl#" of the
\* rdf:about values, written "#".
AboutPrefix == <<"#">>
\* "http://www.semanticweb.org/amr/ontologies/2018/", written "/".
ParentPrefix == <<"/">>

\* The element created for an optional column, when the cell has a value.
PropElem(cell) ==
  IF CellValue(cell).none THEN Absent ELSE Text(CellValue(cell).str)

\* The Class element that lines 76-97 build for a row with a label.
NewClass(row) ==
  LET label == CellValue(row.label).str
  IN  [tag   |-> "amr",
       about |-> AboutPrefix \o Replace(label, " ", "_"),
       subs  |-> <<ParentPrefix \o row.parent>>,
       label |-> Text(label),
       code  |-> PropElem(row.code),
       syns  |-> IF PropElem(row.syns) = Absent THEN <<>> ELSE <<PropElem(row.syns)>>,
       mid   |-> PropElem(row.mid),
       codes |-> <<>>,
       cui   |-> Text(label)]

\* A button of the editor is pressed: the archive is opened, the Excel
\* sheet is read and the OWL file is parsed.
StartBatch(t, d, rows) ==
  /\ tpc = "idle"
  /\ tool' = t
  /\ upload' = d
  /\ onto' = d
  /\ input' = rows
  /\ tpc' = "scan"
  /\ runs' = 1
  /\ UNCHANGED <<branchVars, pos, extracted, results, logs, tout>>

\* One iteration of "for index, row in df.iterrows()" (lines 66-113).
AddRow ==
  /\ tpc = "scan" /\ tool = "addclasses"
  /\ pos <= Len(input)
  /\ IF HasLabel(input[pos].label)
     THEN /\ onto' = Append(onto, NewClass(input[pos]))
          /\ logs' = Append(logs, [kind |-> "added", row |-> pos])
     ELSE /\ logs' = Append(logs, [kind |-> "skipped", row |-> pos])
          /\ UNCHANGED onto
  /\ pos' = pos + 1
  /\ UNCHANGED <<zipVars, branchVars, tool, tpc, input, extracted, results, tout, upload,
                 runs>>

\* ---------------------------------------------- update codes / synonyms
\* Characters in the order of their code points.
CharOrder ==
  <<"\n", " ", "#", "-", ".", "/">> \o <<"0", "1", "2", "3", "4", "5", "6", "7", "8", "9">>
    \o <<":", ";">> \o Uppers \o <<"_">> \o Lowers
Ord(c) == CHOOSE i \in DOMAIN CharOrder : CharOrder[i] = c

\* a < b for two str values
StrLess(a, b) ==
  \E k \in 1..(Len(a) + 1) :
    /\ k <= Len(b)
    /\ \A j \in 1..(k - 1) : a[j] = b[j]
    /\ (k = Len(a) + 1 \/ Ord(a[k]) < Ord(b[k]))

\* sorted(S) for a set of str values
Sorted(S) ==
  [k \in 1..Cardinality(S) |->
     CHOOSE x \in S : Cardinality({y \in S : StrLess(y, x)}) = k - 1]

\* The rows that the pass keeps (dropna on 'Mendel ID'), the identifier
\* formatted and the value column filled, made a string and stripped.
BatchRows(rows) ==
  LET kept == SelectSeq(rows, LAMBDA r : ~r.id.none)
  IN  [i \in 1..Len(kept) |->
         [id    |-> Strip(kept[i].id.str),
          value |-> IF kept[i].value.none THEN <<>> ELSE Strip(kept[i].value.str)]]

\* mendel_id_to_codes / mendel_id_to_synonyms: identifier -> list of cells
MendelIdToValues(rows) == Grouped([i \in 1..Len(rows) |-> <<rows[i].id, rows[i].value>>], 1, 2)

\* The field of a class that the pass updates.
FieldOf(t) == IF t = "updatecodes" THEN "codes" ELSE "syns"

\* Mutant of UpdatedElems: the elements of the field are replaced by one
\* element with the supplied values.
UpdatedElemsReplaced(elems, values) ==
  <<Text(Join(Sorted(Range(values)), <<"\n">>))>>

\* Lines 239-252: the elements of the field after the update with the
\* supplied values.
UpdatedElems(elems, values) ==
  IF elems # <<>>
  THEN LET existing == StripAll(Split(TextOrEmpty(elems[1]), {"\n"}))
           combined == Range(existing) \cup Range(values)
       IN  [elems EXCEPT ![1] = Text(Join(Sorted(combined), <<"\n">>))]
  ELSE <<Text(Join(Sorted(Range(values)), <<"\n">>))>>

\* The position in d of the k-th class that root.xpath('//owl0:Class') finds.
OwlIndex(d, k) ==
  CHOOSE i \in 1..Len(d) :
    d[i].tag = "owl" /\ Cardinality({j \in 1..i : d[j].tag = "owl"}) = k

\* One iteration of "for index, cls in enumerate(classes)" (lines 214-263).
UpdateClass ==
  /\ tpc = "scan" /\ tool \in {"updatecodes", "updatesynonyms"}
  /\ pos <= Len(OwlClasses(onto))
  /\ LET at    == OwlIndex(onto, pos)
         cls   == onto[at]
         table == MendelIdToValues(BatchRows(input))
         id    == Strip(cls.mid.text)
         f     == FieldOf(tool)
     IN  IF cls.mid.kind = "notext" THEN ToolRaise
         ELSE IF cls.mid.kind = "absent" \/ id \notin DOMAIN table
         THEN /\ pos' = pos + 1
              /\ UNCHANGED <<zipVars, branchVars, onto, tool, tpc, input, extracted,
                             results,
                             logs, tout, upload, runs>>
         ELSE /\ onto' = [onto EXCEPT ![at][f] = UpdatedElems(cls[f], table[id])]
              /\ logs' = Append(logs, [kind |-> IF cls[f] # <<>> THEN "updated" ELSE "added",
                                       id |-> id])
              /\ pos' = pos + 1
              /\ UNCHANGED <<zipVars, branchVars, tool, tpc, input, extracted, results,
                             tout,
                             upload, runs>>

\* After the loop: tree.write, and the download of the modified file is offered.
FinishBatch ==
  /\ tpc = "scan"
  /\ \/ tool = "addclasses" /\ pos > Len(input)
     \/ tool \in {"updatecodes", "updatesynonyms"} /\ pos > Len(OwlClasses(onto))
  /\ tpc' = "done"
  /\ tout' = "document"
  /\ UNCHANGED <<zipVars, branchVars, onto, tool, pos, input, extracted, results, logs,
                 upload, runs>>

\* An element as etree.parse reads it back from the written file: text is
\* None for an element written with empty text.
Reread(e) == IF e.kind = "text" /\ e.text = <<>> THEN NoText ELSE e
RereadAll(elems) == [i \in 1..Len(elems) |-> Reread(elems[i])]
RereadDoc(d) ==
  [i \in 1..Len(d) |->
     [d[i] EXCEPT !.mid = Reread(@), !.label = Reread(@), !.code = Reread(@),
                  !.cui = Reread(@), !.codes = RereadAll(@), !.syns = RereadAll(@)]]

\* The modified file is uploaded again with the same Excel sheet.
ApplyAgain ==
  /\ tpc = "done" /\ tout = "document"
  /\ tool \in {"updatecodes", "updatesynonyms"}
  /\ runs < MaxRuns
  /\ upload' = RereadDoc(onto)
  /\ onto' = RereadDoc(onto)
  /\ pos' = 1
  /\ logs' = <<>>
  /\ tpc' = "scan"
  /\ tout' = "none"
  /\ runs' = runs + 1
  /\ UNCHANGED <<zipVars, branchVars, tool, input, extracted, results>>

\* ------------------------------------------------ inputs of the editor
\* Texts of existing Codes and Synonyms elements.
ExistingTexts ==
  {<<"X", ":", "1">>,
   <<"X", ":", "1", "\n", "Y", ":", "2">>,
   <<"X", ":", "1", ";", "Y", ":", "2">>,
   <<" ", "Y", ":", "2", " ", "\n", "\n", "X", ":", "1", "\n", "Y", ":", "2">>,
   <<" ">>}

\* A class with identifier m1 and the given Codes and Synonyms elements.
FieldClass(elems) ==
  OntoClass(<<"u", "1">>, Text(<<"m", "1", " ">>), Text(<<"L", "1">>), elems, elems)

FieldClasses ==
  {FieldClass(<<Text(t)>>) : t \in ExistingTexts}
    \cup {FieldClass(<<>>), FieldClass(<<NoText>>),
          FieldClass(<<Text(<<"X", ":", "1">>), Text(<<"X", ":", "1", "\n", "Y", ":", "2">>)>>)}

\* Documents of the update passes: a class to update, alone, or before or
\* after another class.
OtherClasses ==
  {OntoClass(<<"u", "2">>, Text(<<"m", "2">>), NoText, <<Text(<<"X", ":", "1", "\n", "Y",
        ":", "2">>)>>, <<>>),
   OntoClass(<<"u", "3">>, Absent, Absent, <<>>, <<Text(<<"X", ":", "1">>)>>),
   OntoClass(<<"u", "4">>, NoText, Text(<<"L", "4">>), <<>>, <<>>)}
PairedClasses ==
  {FieldClass(<<>>), FieldClass(<<Text(<<"X", ":", "1">>)>>),
   FieldClass(<<Text(<<"X", ":", "1", ";", "Y", ":", "2">>)>>)}
UpdateDocs ==
  {<<c>> : c \in FieldClasses}
    \cup {<<c, o>> : c \in PairedClasses, o \in OtherClasses}
    \cup {<<o, c>> : c \in PairedClasses, o \in OtherClasses}

\* Rows of the sheet of an update pass.
UpdateCells == {NaN, Str(<<"X", ":", "1">>), Str(<<"Y", ":", "2">>), Str(<<"X", ":", "1",
        "\n", "Y", ":", "2">>),
                Str(<<"Y", ":", "2", ";", "Z", ":", "3">>)}
UpdateRows ==
  {[id |-> Str(<<"m", "1">>), value |-> v] : v \in UpdateCells}
    \cup {[id |-> Str(<<"m", "9">>), value |-> Str(<<"X", ":", "1">>)],
          [id |-> NaN, value |-> Str(<<"X", ":", "1">>)],
          [id |-> Str(<<" ", "m", "2">>), value |-> Str(<<"Y", ":", "2">>)]}
UpdateBatches == SeqsUpTo(MaxRows, UpdateRows)

\* Documents of the insert-new-class batch.
InsertDocs ==
  {<<>>,
   <<OntoClass(ParentPrefix \o <<"P">>, Text(<<"m", "0">>), Text(<<"P">>), <<>>, <<>>)>>,
   <<OntoClass(AboutPrefix \o <<"A">>, Text(<<"m", "1">>), Text(<<"A">>), <<>>, <<>>)>>,
   <<OntoClass(AboutPrefix \o <<"A">>, Text(<<"m", "1">>), Text(<<"A">>), <<>>, <<>>),
     OntoClass(AboutPrefix \o <<"B", "_", "C">>, Text(<<"m", "2">>), Text(<<"B", " ", "C">>),
               <<>>, <<>>)>>}

\* Rows of the sheet of the insert-new-class batch.
LabelCells ==
  {NaN, Str(<<>>), Str(<<" ">>), Str(<<"A">>), Str(<<" ", "A", " ">>),
   Str(<<"B", " ", "C">>), Str(<<"B", "_", "C">>), Str(<<"D">>)}
InsertRows ==
  {[parent |-> <<"P">>, label |-> l, code |-> NaN, syns |-> NaN, mid |-> NaN] :
     l \in LabelCells}
    \cup {[parent |-> <<"P">>, label |-> Str(<<"D">>), code |-> Str(<<"X", ":", "1">>),
           syns |-> Str(<<" ">>), mid |-> Str(<<"m", "7">>)]}
InsertBatches == SeqsUpTo(MaxRows, InsertRows)

PressEdit ==
  /\ tpc = "idle" /\ pc = "idle"
  /\ UNCHANGED zipVars
  /\ \/ \E d \in InsertDocs : \E rows \in InsertBatches :
          StartBatch("addclasses", d, rows)
     \/ \E t \in {"updatecodes", "updatesynonyms"} :
          \E d \in UpdateDocs : \E rows \in UpdateBatches : StartBatch(t, d, rows)

EditNext == PressEdit \/ AddRow \/ UpdateClass \/ FinishBatch \/ ApplyAgain

EditSpec == Init /\ [][EditNext]_vars

\* ------------------------------------------- the edited document, reused
\* The positions of the classes that the Mendel ID lookup of the search tool
\* reports for the identifiers ids: "for cls in root.xpath('//owl0:Class')",
\* "if mendel_id and mendel_id in mendel_ids_set".
MendelIdLookup(d, ids) ==
  {k \in 1..Len(OwlClasses(d)) :
     LET mid == GetMendelId(OwlClasses(d)[k]).val
     IN  ~mid.none /\ mid.str # <<>> /\ mid.str \in ids}

\* The first pass of the traversal tool over the document: the class at
\* position i is found by findall(owl:Class), has an rdf:about and a
\* Mendel_ID with text.
FirstPassHolds(d, i) ==
  /\ d[i].tag = "owl"
  /\ d[i].about # <<>>
  /\ d[i].mid.kind = "text" /\ d[i].mid.text # <<>>

\* mendel_id_to_node keeps the last class of an identifier, and
\* about_to_mendel_id the identifier of the last class of an rdf:about.
KeptForId(d, i) ==
  /\ FirstPassHolds(d, i)
  /\ \A j \in (i + 1)..Len(d) :
       ~(FirstPassHolds(d, j) /\ Strip(d[j].mid.text) = Strip(d[i].mid.text))
KeptForAbout(d, i) ==
  /\ FirstPassHolds(d, i)
  /\ \A j \in (i + 1)..Len(d) : ~(FirstPassHolds(d, j) /\ d[j].about = d[i].about)

\* The second pass: the edges <<parent id, child id>> of parent_to_children.
ParentChildEdges(d) ==
  {<<Strip(d[e[2]].mid.text), Strip(d[e[1]].mid.text)>> :
     e \in {f \in (1..Len(d)) \X (1..Len(d)) :
              /\ KeptForId(d, f[1])
              /\ KeptForAbout(d, f[2])
              /\ d[f[2]].about \in {d[f[1]].subs[k] : k \in 1..Len(d[f[1]].subs)}}}

\* ------------------------------------------------------------ archives
\* A member of the ZIP archive: its name and the classes of its content.
File(name, content) == [name |-> name, content |-> content]

\* name.endswith(suffix)
EndsWith(name, suffix) ==
  /\ Len(name) >= Len(suffix)
  /\ SubSeq(name, Len(name) - Len(suffix) + 1, Len(name)) = suffix

DotOwl == <<".", "o", "w", "l">>
DotXml == <<".", "x", "m", "l">>

\* Mutant of OwlFilenames: every member of the archive counts.
OwlFilenamesAny(z) == z

\* [name for name in z.namelist()
\*    if name.endswith('.owl') or name.endswith('.xml')]
OwlFilenames(z) ==
  SelectSeq(z, LAMBDA f : EndsWith(f.name, DotOwl) \/ EndsWith(f.name, DotXml))

\* The members that the sidebar loop of the traversal tool accepts:
\* "if filename.endswith('.owl')"; the loop extracts the first and breaks.
SidebarOwlFiles(z) == SelectSeq(z, LAMBDA f : EndsWith(f.name, DotOwl))

\* z.extract(filename, UPLOAD_DIR): a file of the same name is replaced.
Extract(dir, f) == {g \in dir : g.name # f.name} \cup {f}

\* The search tool and the editor found no OWL file: st.error is shown, the
\* document is not parsed, the sheet is not read.
NoOwlFile(t) ==
  /\ tool' = t
  /\ tpc' = "done"
  /\ tout' = "error"
  /\ UNCHANGED <<branchVars, saved, onto, pos, input, extracted, results, logs,
                 upload, runs>>

\* Names of archive members.
ArchiveNames ==
  {<<"a", ".", "o", "w", "l">>, <<"b", ".", "x", "m", "l">>,
   <<"c", ".", "t", "x", "t">>, <<"o", "w", "l">>}

ArchivesOf(contents) ==
  SeqsUpTo(MaxFiles, {File(n, d) : n \in ArchiveNames, d \in contents})

SearchContents == {OneClassDoc(<<"A">>), OneClassDoc(<<"a", ";", "A">>)}
SearchArchiveInputs == {<<<<"a">>>>, <<<<"A">>, <<"b">>>>}

\* The Search button with an archive selected (main, lines 95-148, and
\* process_zip_file_*_search).
SearchArchive ==
  /\ tpc = "idle" /\ pc = "idle" /\ tool = "none"
  /\ \E z \in ArchivesOf(SearchContents) : \E t \in SearchTypes :
       \E pieces \in SearchArchiveInputs :
         /\ archive' = z
         /\ IF OwlFilenames(z) = <<>>
              THEN NoOwlFile(t)
              ELSE /\ StartSearch(OwlFilenames(z)[1].content, t, pieces)
                   /\ saved' = saved

UpdateContents == {<<FieldClass(<<>>)>>, <<FieldClass(<<Text(<<"X", ":", "1">>)>>)>>}
UpdateArchiveRows == {<<[id |-> Str(<<"m", "1">>), value |-> Str(<<"Y", ":", "2">>)]>>}
InsertContents ==
  {<<>>,
   <<OntoClass(AboutPrefix \o <<"A">>, Text(<<"m", "1">>), Text(<<"A">>), <<>>, <<>>)>>}
InsertArchiveRows ==
  {<<[parent |-> <<"P">>, label |-> Str(<<"D">>), code |-> NaN, syns |-> NaN,
      mid |-> NaN]>>}

\* A button of the editor with an archive and a sheet uploaded
\* (add_new_classes, update_codes_in_ontology, update_synonyms_in_ontology).
EditArchive ==
  /\ tpc = "idle" /\ pc = "idle" /\ tool = "none"
  /\ \/ \E z \in ArchivesOf(InsertContents) : \E rows \in InsertArchiveRows :
          /\ archive' = z
          /\ IF OwlFilenames(z) = <<>>
               THEN NoOwlFile("addclasses")
               ELSE /\ StartBatch("addclasses", OwlFilenames(z)[1].content, rows)
                    /\ saved' = saved
     \/ \E t \in {"updatecodes", "updatesynonyms"} :
          \E z \in ArchivesOf(UpdateContents) : \E rows \in UpdateArchiveRows :
            /\ archive' = z
            /\ IF OwlFilenames(z) = <<>>
                 THEN NoOwlFile(t)
                 ELSE /\ StartBatch(t, OwlFilenames(z)[1].content, rows)
                      /\ saved' = saved

\* The sidebar of the traversal tool with an archive uploaded
\* (src/getbranch.py, lines 164-177).
SidebarUpload ==
  /\ tpc = "idle" /\ pc = "idle" /\ tool \in {"none", "sidebar"}
  /\ \E z \in ArchivesOf(SearchContents) :
       /\ archive' = z
       /\ tool' = "sidebar"
       /\ IF SidebarOwlFiles(z) = <<>>
            THEN /\ tout' = "error"
                 /\ saved' = saved
            ELSE /\ tout' = "success"
                 /\ saved' = Extract(saved, SidebarOwlFiles(z)[1])
  /\ UNCHANGED <<branchVars, onto, tpc, pos, input, extracted, results, logs,
                 upload, runs>>

ArchiveNext ==
  \/ SearchArchive \/ SearchClass \/ FinishSearch
  \/ EditArchive \/ AddRow \/ UpdateClass \/ FinishBatch
  \/ SidebarUpload

ArchiveSpec == Init /\ [][ArchiveNext]_vars

\* ===================================================================
\* Properties
\* ===================================================================

\* The edges <<parent id, child id>> of the forward adjacency of a document.
FwdEdges(d) ==
  LET a == ParentToChildren(d)
  IN  UNION {{<<p, a[p][k]>> : k \in 1..Len(a[p])} : p \in DOMAIN a}

\* The edges <<child id, parent id>> of the reverse adjacency of a document.
RevEdges(d) ==
  LET a == ChildToParents(d)
  IN  UNION {{<<c, a[c][k]>> : k \in 1..Len(a[c])} : c \in DOMAIN a}

Succ(E, S) == {e[2] : e \in {f \in E : f[1] \in S}}

RECURSIVE Closure(_, _)
Closure(E, S) ==
  LET T == S \cup Succ(E, S)
  IN  IF T = S THEN S ELSE Closure(E, T)

\* The identifiers reachable from r by one or more edges of E.
ReachablePlus(E, r) == Closure(E, Succ(E, {r}))

\* No identifier reaches itself.
Acyclic(E) == \A e \in E : e[1] \notin ReachablePlus(E, e[1])

\* An extract_children call has just returned to the handler.
AtChildrenReturn == pc = "loop" /\ op = "children" /\ idx > 1
\* An extract_parents call has just returned to the handler.
AtParentsReturn == pc = "loop" /\ op = "parents" /\ idx > 1
\* The identifier the call was made for.
LastRoot == reqs[idx - 1]
\* The identifiers of the rows extract_children returned.
ReturnedIds == {row[1] : row \in branch_data}

\* C1 (as stated): for every graph, cyclic or not, the descendant closure
\* returned by extract_children(root, r) does not contain r.
C1_RootNeverReturned ==
  AtChildrenReturn => LastRoot \notin ReturnedIds

\* C1 (amended): when r lies on no cycle of the forward adjacency (no
\* self-loop included), the descendant closure returned by
\* extract_children(root, r) does not contain r; when r lies on a cycle, it
\* does.
C1_RootReturnedIffOnCycle ==
  AtChildrenReturn =>
    (LastRoot \in ReturnedIds <=> LastRoot \in ReachablePlus(FwdEdges(doc), LastRoot))

\* A call for a root that is on no cycle, above a descendant that is on one.
C1_Witness ==
  /\ AtChildrenReturn
  /\ LastRoot \notin ReachablePlus(FwdEdges(doc), LastRoot)
  /\ \E x \in ReturnedIds : x \in ReachablePlus(FwdEdges(doc), x)

\* C2: the descendant closure of r is exactly the set of identifiers
\* reachable from r by one or more parent-to-child edges, and no identifier
\* is recursed into more than once.
C2_ClosureIsReachability ==
  /\ op = "children" => \A m \in Range(Mids) : recursed[m] <= 1
  /\ AtChildrenReturn =>
       /\ ReturnedIds = ReachablePlus(FwdEdges(doc), LastRoot)
       /\ collected = ReturnedIds
       /\ \A m \in Range(Mids) : recursed[m] = 1 <=> m \in ReturnedIds

\* A call in which a descendant is met twice: it has two parents that are
\* both the root or a descendant of it.
C2_Witness ==
  /\ AtChildrenReturn
  /\ \E x \in ReturnedIds :
       Cardinality({e \in FwdEdges(doc) :
                      e[2] = x /\ e[1] \in ReturnedIds \cup {LastRoot}}) >= 2

\* ------------------------------------------------------ extract_parents
\* The identifiers of the rows extract_parents returned.
ResultIds == {parent_data[k][1] : k \in 1..Len(parent_data)}
\* The identifiers from which s is reachable by forward edges.
Ancestors(d, s) ==
  {x \in Range(Mids) : s \in ReachablePlus(FwdEdges(d), x)}
\* The parent list of an identifier in the reverse adjacency.
ParentsOf(d, id) == DictGet(ChildToParents(d), id).val
\* Position of an element in a sequence that contains it.
PosIn(p, x) == CHOOSE j \in 1..Len(p) : p[j] = x

\* C3: for an acyclic identifier graph the result of extract_parents(root, s)
\* contains every identifier from which s is reachable by forward edges.
C3_AllLineages ==
  (AtParentsReturn /\ Acyclic(FwdEdges(doc))) =>
    Ancestors(doc, LastRoot) \subseteq ResultIds

\* A start identifier with two parents that are not ancestors of each
\* other, one of which has an ancestor that the other one does not have.
C3_Witness ==
  /\ AtParentsReturn
  /\ Acyclic(FwdEdges(doc))
  /\ \E p1, p2 \in Range(ParentsOf(doc, LastRoot)) :
       /\ p1 # p2
       /\ p1 \notin Ancestors(doc, p2)
       /\ p2 \notin Ancestors(doc, p1)
       /\ Ancestors(doc, p2) \ (Ancestors(doc, p1) \cup {p1}) # {}

PathEnd(p) == IF p = <<>> THEN LastRoot ELSE Last(p)

\* C5: when the graph has no cycle, every recorded path ends at an
\* identifier without parents, and every result row at level 0 is such an
\* identifier.
C5_PathsEndAtRoots ==
  (AtParentsReturn /\ Acyclic(FwdEdges(doc))) =>
    /\ \A k \in 1..Len(paths) : ParentsOf(doc, PathEnd(paths[k])) = <<>>
    /\ \A k \in 1..Len(parent_data) :
         parent_data[k][3] = 0 => ParentsOf(doc, parent_data[k][1]) = <<>>

\* Paths to two different roots.
C5_Witness ==
  /\ AtParentsReturn
  /\ Acyclic(FwdEdges(doc))
  /\ \E k1, k2 \in 1..Len(paths) :
       /\ paths[k1] # <<>> /\ paths[k2] # <<>>
       /\ Last(paths[k1]) # Last(paths[k2])
  /\ \E k \in 1..Len(parent_data) : parent_data[k][3] = 0

\* The paths from id up to the roots, depth first over the parent lists,
\* each as the list of identifiers above id (acyclic graphs).
RECURSIVE PathsAbove(_, _, _)
RECURSIVE PathsVia(_, _, _, _)
PathsAbove(c2p, id, prefix) ==
  LET ps == DictGet(c2p, id).val
  IN  IF ps = <<>> THEN <<prefix>> ELSE PathsVia(c2p, ps, 1, prefix)
PathsVia(c2p, ps, k, prefix) ==
  IF k > Len(ps) THEN <<>>
  ELSE PathsAbove(c2p, ps[k], Append(prefix, ps[k]))
         \o PathsVia(c2p, ps, k + 1, prefix)

\* Index of the first path that contains id.
FirstPathWith(ps, id) ==
  CHOOSE k \in 1..Len(ps) :
    /\ id \in Range(ps[k])
    /\ \A j \in 1..(k - 1) : id \notin Range(ps[j])

\* C6: when the graph has no cycle, the recorded paths are the paths from
\* the start identifier to the roots in depth-first order over the parent
\* lists, and the level of each result row is the number of hops between
\* its identifier and the root in the first of these paths that contains it.
C6_LevelIsFirstSeenDepth ==
  (AtParentsReturn /\ Acyclic(FwdEdges(doc))) =>
    LET ps == PathsAbove(ChildToParents(doc), LastRoot, <<>>)
    IN  /\ paths = ps
        /\ \A k \in 1..Len(parent_data) :
             LET id == parent_data[k][1]
                 p  == ps[FirstPathWith(ps, id)]
             IN  parent_data[k][3] = Len(p) - PosIn(p, id)

\* An identifier that lies at two different depths in two paths.
C6_Witness ==
  /\ AtParentsReturn
  /\ Acyclic(FwdEdges(doc))
  /\ \E k1, k2 \in 1..Len(paths) : \E id \in Range(paths[k1]) \cap Range(paths[k2]) :
       /\ k1 < k2
       /\ Len(paths[k1]) - PosIn(paths[k1], id) > Len(paths[k2]) - PosIn(paths[k2], id)

\* The rows of all paths before duplicates are removed.
FlatRows == Leveled(paths, doc, idnode)
\* Index of the first row of a sequence with the given identifier.
FirstRowOf(rows, id) ==
  CHOOSE j \in 1..Len(rows) :
    /\ rows[j][1] = id
    /\ \A i \in 1..(j - 1) : rows[i][1] # id

\* C7: the result of extract_parents has exactly one row per identifier of
\* the flattened paths: the first occurrence, in the order of the first
\* occurrences.
C7_FirstOccurrenceKept ==
  AtParentsReturn =>
    LET flat == FlatRows
        n    == Len(parent_data)
    IN  /\ ResultIds = {flat[j][1] : j \in 1..Len(flat)}
        /\ \A k1, k2 \in 1..n : parent_data[k1][1] = parent_data[k2][1] => k1 = k2
        /\ \A k \in 1..n : parent_data[k] = flat[FirstRowOf(flat, parent_data[k][1])]
        /\ \A k1, k2 \in 1..n :
             k1 < k2 => FirstRowOf(flat, parent_data[k1][1])
                          < FirstRowOf(flat, parent_data[k2][1])

\* A later occurrence with another level is discarded.
C7_Witness ==
  /\ AtParentsReturn
  /\ \E i, j \in 1..Len(FlatRows) :
       /\ i < j
       /\ FlatRows[i][1] = FlatRows[j][1]
       /\ FlatRows[i][3] # FlatRows[j][3]

\* ------------------------------------------------------------ handler
\* The identifiers of a request that lie on a cycle of the graph.
OnCycleIds == {m \in Range(reqs) : m \in ReachablePlus(FwdEdges(doc), m)}

\* C8: both traversals terminate on every graph, cycles and self-loops
\* included: the handler reaches its end, and the recursion never gets as
\* deep as the cap of the model.
C8_Terminates ==
  /\ (pc # "idle") ~> (pc = "done")
  /\ [](Len(stack) < MaxDepth)

\* The handler has ended after a traversal from an identifier on a cycle.
C8_Witness ==
  /\ pc = "done"
  /\ outcome # "error"
  /\ OnCycleIds # {}

\* The roots of the blocks of the result table.
BlockRoots == {all_data[k].root : k \in 1..Len(all_data)}

\* C9: a request for an identifier that no class carries returns an empty
\* result without raising; the handler warns about that identifier and goes
\* on with the remaining identifiers, each of which ends in a warning or in
\* a block of the result table.
C9_AbsentIdWarned ==
  /\ outcome # "error"
  /\ (pc = "loop" /\ idx > 1 /\ LastRoot \notin KnownIds(doc)) =>
       /\ IF op = "children" THEN branch_data = {} ELSE parent_data = <<>>
       /\ warnings # <<>> /\ Last(warnings) = LastRoot
  /\ pc = "done" =>
       /\ idx = Len(reqs) + 1
       /\ Len(warnings) + Len(all_data) = Len(reqs)
       /\ \A i \in 1..Len(reqs) :
            reqs[i] \notin KnownIds(doc) =>
              reqs[i] \in Range(warnings) /\ reqs[i] \notin BlockRoots

\* An absent identifier was requested before one that has results.
C9_Witness ==
  /\ pc = "done"
  /\ Len(reqs) >= 2
  /\ reqs[1] \notin KnownIds(doc)
  /\ warnings = <<reqs[1]>>
  /\ all_data # <<>>

\* C10: recomputing the descendant closure of a root on the unmodified
\* document returns the same set: two calls for the same root in one run
\* of the handler return the same rows, whatever was requested in between.
C10_SameRootSameClosure ==
  op = "children" =>
    /\ \A i, j \in 1..Len(all_data) :
         all_data[i].root = all_data[j].root => all_data[i].rows = all_data[j].rows
    /\ BlockRoots \cap Range(warnings) = {}

\* The same root was requested twice, with another root in between, and
\* has descendants.
C10_Witness ==
  /\ pc = "done" /\ op = "children"
  /\ Len(reqs) = 3 /\ reqs[1] = reqs[3] /\ reqs[1] # reqs[2]
  /\ Len(all_data) = 3

\* ------------------------------------------------------------------ C11
\* The class elements of d that carry identifier id and are entered in the
\* maps of the first pass.
ClassesWith(d, id) == {i \in 1..Len(d) : Indexed(d[i]) /\ d[i].mid = id}
\* The last of them in document order.
LastClassWith(d, id) ==
  CHOOSE i \in ClassesWith(d, id) : \A j \in ClassesWith(d, id) : j <= i
\* The identifiers of the indexed classes.
IndexedIds(d) == {d[i].mid : i \in {k \in 1..Len(d) : Indexed(d[k])}}
\* The resource r is the rdf:about of an indexed class of d.
Resolves(d, r) == \E i \in 1..Len(d) : Indexed(d[i]) /\ d[i].about = r
\* The identifier of the indexed class whose rdf:about is r.
IdOfAbout(d, r) ==
  d[CHOOSE i \in 1..Len(d) :
      /\ Indexed(d[i]) /\ d[i].about = r
      /\ \A j \in 1..Len(d) : Indexed(d[j]) /\ d[j].about = r => j <= i].mid
\* The parents that the subClassOf elements of class n name, in element
\* order, those that do not resolve left out.
NamedParents(d, n) ==
  LET sel == SelectSeq(n.subs, LAMBDA r : Resolves(d, r))
  IN  [j \in 1..Len(sel) |-> IdOfAbout(d, sel[j])]
\* How often x occurs in the sequence s.
Count(s, x) == Cardinality({j \in 1..Len(s) : s[j] = x})
\* The list stored under key k, empty when there is none.
ListAt(a, k) == IF k \in DOMAIN a THEN a[k] ELSE <<>>

\* The two passes have just built the maps: the traversal has not started.
JustBuilt ==
  \/ pc = "descend" /\ stack = <<[id |-> reqs[idx], i |-> 1]>>
  \/ pc = "ascend" /\ stack = <<[id |-> reqs[idx], i |-> 0]>>

\* C11: a subClassOf element whose resource is the rdf:about of no indexed
\* class is dropped without an exception: it adds no key and no entry to
\* parent_to_children or child_to_parents, and every resolving subClassOf
\* element of the same class is recorded, in element order.
C11_DanglingEdgeDropped ==
  /\ pc \in {"descend", "ascend"} => outcome # "error"
  /\ JustBuilt =>
       LET ids == IndexedIds(doc)
       IN  /\ DOMAIN adj \subseteq ids
           /\ \A k \in DOMAIN adj : Range(adj[k]) \subseteq ids
           /\ \A c \in ids :
                LET named == NamedParents(doc, doc[LastClassWith(doc, c)])
                IN  IF pc = "ascend"
                      THEN ListAt(adj, c) = named
                      ELSE \A q \in ids :
                             Count(ListAt(adj, q), c) = Count(named, q)

\* A class has a subClassOf element that does not resolve, followed by one
\* that does, and the maps have been built.
C11_Witness ==
  /\ JustBuilt
  /\ adj # <<>>
  /\ \E i \in 1..Len(doc) :
       /\ Indexed(doc[i]) /\ LastClassWith(doc, doc[i].mid) = i
       /\ \E j \in 1..Len(doc[i].subs), k \in 1..Len(doc[i].subs) :
            /\ j < k
            /\ ~Resolves(doc, doc[i].subs[j])
            /\ Resolves(doc, doc[i].subs[k])

\* ------------------------------------------------------------------ C12
\* C12: mendel_id_to_node holds, for every identifier, the last class in
\* document order that carries it, and the label of every returned row is the
\* label of that class.
C12_LastDuplicateWins ==
  /\ JustBuilt => \A id \in DOMAIN idnode : idnode[id] = LastClassWith(doc, id)
  /\ AtChildrenReturn =>
       \A row \in branch_data :
         row[2] = LabelText(doc[LastClassWith(doc, row[1])])
  /\ AtParentsReturn =>
       \A k \in 1..Len(parent_data) :
         parent_data[k][2] = LabelText(doc[LastClassWith(doc, parent_data[k][1])])

\* Two classes carry the identifier of a returned row.
C12_Witness ==
  \/ AtChildrenReturn /\ \E row \in branch_data : Cardinality(ClassesWith(doc, row[1])) > 1
  \/ AtParentsReturn /\ \E k \in 1..Len(parent_data) :
       Cardinality(ClassesWith(doc, parent_data[k][1])) > 1

\* ------------------------------------------------------------ C13 - C16
\* The search pass has ended, with a result or with an exception.
SearchEnded(t) == tool = t /\ tpc = "done"
\* Class k of the document has a row in the results.
Reported(k) == \E j \in 1..Len(results) : results[j].cls = k
\* The part of a stored code after its first ':', the whole code without ':'.
ValuePart(c) ==
  LET at == {i \in 1..Len(c) : c[i] = ":"}
  IN  IF at = {} THEN c
      ELSE SubSeq(c, (CHOOSE i \in at : \A j \in at : i <= j) + 1, Len(c))
\* s without the characters that are not letters or digits, in lower case.
AlnumLower(s) == Lower(SelectSeq(s, LAMBDA c : IsAsciiAlnum(c)))
\* s without its '.' characters, in lower case.
DotlessLower(s) == Lower(SelectSeq(s, LAMBDA c : c # "."))
\* Some stored value and some input term of class k are equal under f and g.
SomePairEqual(vals, f(_), g(_)) ==
  \E i \in 1..Len(vals) : \E x \in Range(SearchTerms(input)) : f(vals[i]) = g(x)

\* C13: relaxed code-value search reports a class exactly when the value
\* part of some stored code and some input term are equal after removing
\* every non-alphanumeric character and lowercasing.
C13_RelaxedMatch ==
  SearchEnded("relaxed") =>
    \A k \in 1..Len(OwlClasses(onto)) :
      Reported(k) <=>
        SomePairEqual(GetCodes(OwlClasses(onto)[k]),
                      LAMBDA c : AlnumLower(ValuePart(c)), AlnumLower)

\* C14: semi-relaxed code-value search reports a class exactly when the
\* value part of some stored code and some input term are equal after
\* removing only the '.' characters and lowercasing.
C14_SemiRelaxedMatch ==
  SearchEnded("semi") =>
    \A k \in 1..Len(OwlClasses(onto)) :
      Reported(k) <=>
        SomePairEqual(GetCodes(OwlClasses(onto)[k]),
                      LAMBDA c : DotlessLower(ValuePart(c)), DotlessLower)

\* C15: exact synonym search and exact code search report a class exactly
\* when its lowercased synonyms (codes) and the lowercased input terms have
\* a value in common.
C15_ExactMatch ==
  /\ SearchEnded("synonym") =>
       \A k \in 1..Len(OwlClasses(onto)) :
         Reported(k) <=> SomePairEqual(GetSynonyms(OwlClasses(onto)[k]), Lower, Lower)
  /\ SearchEnded("code") =>
       \A k \in 1..Len(OwlClasses(onto)) :
         Reported(k) <=> SomePairEqual(GetCodes(OwlClasses(onto)[k]), Lower, Lower)

\* The positions of ';' and newline in t, and the two ends of t.
Cuts(t) == {i \in 1..Len(t) : t[i] \in {";", "\n"}} \cup {0, Len(t) + 1}
\* The pieces of t between neighbouring cuts, trimmed, in the order of t.
Pieces(t) ==
  LET starts == Cuts(t) \ {Len(t) + 1}
      kth(k) == CHOOSE b \in starts : Cardinality({c \in starts : c < b}) = k - 1
      next(b) == CHOOSE e \in Cuts(t) : e > b /\ \A c \in Cuts(t) : c > b => e <= c
  IN  [k \in 1..Cardinality(starts) |->
         Strip(SubSeq(t, kth(k) + 1, next(kth(k)) - 1))]
\* The tokens of the text of one element.
TokensOf(t) == SelectSeq(Pieces(t), LAMBDA x : x # <<>>)
RECURSIVE TokensOfAll(_)
TokensOfAll(elems) ==
  IF elems = <<>> THEN <<>>
  ELSE TokensOf(TextOrEmpty(Head(elems))) \o TokensOfAll(Tail(elems))
\* The text 'A:100; B:200\nC:300' and its three tokens.
ThreeCodes ==
  <<"A", ":", "1", "0", "0", ";", " ", "B", ":", "2", "0", "0", "\n", "C", ":", "3", "0", "0">>
ThreeTokens == <<<<"A", ":", "1", "0", "0">>, <<"B", ":", "2", "0", "0">>,
                 <<"C", ":", "3", "0", "0">>>>

\* C16: the codes (synonyms) extracted from an element's text are the pieces
\* between ';' and newline characters, trimmed, without the pieces that are
\* empty after trimming, in their order in the text.
C16_TokensInOrder ==
  (tool \in SearchTypes /\ pos > 1) =>
    LET cls == OwlClasses(onto)[pos - 1]
    IN  /\ tool = "synonym" =>
             extracted = (IF cls.syns = <<>> THEN <<>>
                          ELSE TokensOf(TextOrEmpty(cls.syns[1])))
        /\ tool # "synonym" => extracted = TokensOfAll(cls.codes)
        /\ (tool # "synonym" /\ cls.codes = <<Text(ThreeCodes)>>) =>
             extracted = ThreeTokens

\* Codes have been extracted from the text 'A:100; B:200\nC:300', and from a
\* text with a piece that is empty after trimming.
C16_Witness ==
  /\ tool \in SearchTypes /\ pos > 1
  /\ LET cls == OwlClasses(onto)[pos - 1]
     IN  \/ tool = "code" /\ cls.codes = <<Text(ThreeCodes)>>
              /\ extracted = ThreeTokens
         \/ tool = "synonym" /\ cls.syns # <<>>
              /\ Len(extracted) = 2
              /\ \E i \in 1..Len(Pieces(TextOrEmpty(cls.syns[1]))) :
                   Pieces(TextOrEmpty(cls.syns[1]))[i] = <<>>

\* ------------------------------------------------------------ C17 - C18
UpdateTools == {"updatecodes", "updatesynonyms"}
\* The values that the sheet supplies for an identifier.
SuppliedFor(id) ==
  {IF input[i].value.none THEN <<>> ELSE Strip(input[i].value.str) :
     i \in {j \in 1..Len(input) : ~input[j].id.none /\ Strip(input[j].id.str) = id}}
\* The class at position i of the uploaded document is one that the pass
\* updates: its identifier is in the sheet.
InBatch(i) ==
  /\ upload[i].tag = "owl" /\ upload[i].mid.kind = "text"
  /\ SuppliedFor(Strip(upload[i].mid.text)) # {}
\* The loop of the pass has gone past position i of the document.
Passed(i) == Cardinality({j \in 1..i : onto[j].tag = "owl"}) < pos
\* The texts of the elements of a field.
TextsOf(elems) == [j \in 1..Len(elems) |-> TextOrEmpty(elems[j])]

\* C17: after the update of a class that had the element, the text of the
\* element is the sorted union of the tokens of its former text and of the
\* values supplied for the identifier of the class, one per line.
C17_SortedUnionOfTokens ==
  tool \in UpdateTools =>
    \A i \in 1..Len(upload) :
      (InBatch(i) /\ Passed(i) /\ upload[i][FieldOf(tool)] # <<>>) =>
        TextOrEmpty(onto[i][FieldOf(tool)][1])
          = Join(Sorted(Range(TokensOf(TextOrEmpty(upload[i][FieldOf(tool)][1])))
                          \cup SuppliedFor(Strip(upload[i].mid.text))), <<"\n">>)

\* C18: a second application of the same batch, to the document that the
\* first application returned, leaves the text of every Codes (Synonyms)
\* element as the first application left it.
C18_SecondApplicationSame ==
  (tool \in UpdateTools /\ runs >= 2 /\ tpc = "done" /\ tout = "document") =>
    \A i \in 1..Len(upload) :
      TextsOf(onto[i][FieldOf(tool)]) = TextsOf(upload[i][FieldOf(tool)])

\* ------------------------------------------------------------ C19 - C20
\* The label cell is missing, empty or holds only whitespace.
BlankLabel(cell) == cell.none \/ \A i \in 1..Len(cell.str) : IsSpace(cell.str[i])
\* The rows before the position of the loop.
RowsDone == 1..(pos - 1)

\* C19: a row whose label is missing, empty or whitespace-only adds no class
\* and is logged as skipped, every other row adds one class, and the loop
\* goes on to the end of the sheet: classes added = rows - skipped rows.
C19_SkippedRowsOnly ==
  tool = "addclasses" =>
    /\ Len(logs) = pos - 1
    /\ \A i \in RowsDone :
         /\ logs[i].row = i
         /\ logs[i].kind = "skipped" <=> BlankLabel(input[i].label)
    /\ Len(onto) = Len(upload) + Cardinality(RowsDone)
                     - Cardinality({i \in RowsDone : BlankLabel(input[i].label)})
    /\ SubSeq(onto, 1, Len(upload)) = upload
    /\ tpc = "done" => (pos = Len(input) + 1 /\ tout = "document")

\* The batch is over, and a row with a label came after a skipped row.
C19_Witness ==
  /\ tool = "addclasses" /\ tpc = "done"
  /\ \E i \in 1..Len(input), j \in 1..Len(input) :
       /\ i < j
       /\ BlankLabel(input[i].label) /\ ~input[i].label.none
       /\ ~BlankLabel(input[j].label)
  /\ Len(onto) = Len(upload) + 1

\* No two class elements of d have the same rdf:about.
UniqueAbouts(d) ==
  \A i \in 1..Len(d), j \in 1..Len(d) : d[i].about = d[j].about => i = j

\* C20: the rdf:about values stay unique under the insert-new-class batch.
C20_AboutsStayUnique ==
  (tool = "addclasses" /\ UniqueAbouts(upload)) => UniqueAbouts(onto)

\* ------------------------------------------------------------------ C21
EditTools == {"addclasses", "updatecodes", "updatesynonyms"}

\* No member of the archive z has a name that ends in one of the suffixes.
NoneEndsIn(z, suffixes) ==
  \A i \in 1..Len(z) : \A x \in suffixes : ~EndsWith(z[i].name, x)

\* C21: an archive without a recognised OWL file ends the load with an error
\* shown to the user: the search returns no table, the editor returns no
\* document and parses none, and the sidebar of the traversal tool saves no
\* file.
C21_NoOwlFileIsAnError ==
  /\ [](/\ (tool \in SearchTypes /\ NoneEndsIn(archive, {DotOwl, DotXml})) =>
            (tpc = "done" /\ tout = "error" /\ results = <<>>)
        /\ (tool \in EditTools /\ NoneEndsIn(archive, {DotOwl, DotXml})) =>
            (tpc = "done" /\ tout = "error" /\ onto = <<>> /\ upload = <<>>)
        /\ (tool = "sidebar" /\ NoneEndsIn(archive, {DotOwl})) =>
            tout = "error")
  /\ [][(tool' = "sidebar" /\ NoneEndsIn(archive', {DotOwl})) => saved' = saved]_vars

\* The sidebar was given an archive with an ".xml" file and no ".owl" file,
\* after an earlier upload had saved a file.
C21_Witness ==
  /\ tool = "sidebar" /\ tout = "error"
  /\ NoneEndsIn(archive, {DotOwl})
  /\ \E i \in 1..Len(archive) : EndsWith(archive[i].name, DotXml)
  /\ saved # {}

\* ------------------------------------------------------------------ C22
\* The class has an identifier or a label element without text.
HasTextlessElement(cls) == cls.mid.kind = "notext" \/ cls.label.kind = "notext"

\* C22: a class without a Mendel_ID, label, Synonyms or Codes element makes
\* no accessor raise: a pass stops with an error only at a class with a
\* text-less element, a reported class without identifier element has the
\* identifier None, one without label element the label 'No label', and the
\* value list of a class without the searched element is empty.
C22_MissingElementsGiveSentinels ==
  tool \in SearchTypes =>
    /\ tout = "error" =>
         (pos <= Len(OwlClasses(onto)) /\ HasTextlessElement(OwlClasses(onto)[pos]))
    /\ \A k \in 1..Len(results) :
         LET cls == OwlClasses(onto)[results[k].cls]
         IN  /\ cls.mid.kind = "absent" => results[k].mid = PyNone
             /\ cls.label.kind = "absent" => results[k].label = NoLabelText
    /\ pos > 1 =>
         LET cls == OwlClasses(onto)[pos - 1]
         IN  /\ (tool = "synonym" /\ cls.syns = <<>>) => extracted = <<>>
             /\ (tool # "synonym" /\ cls.codes = <<>>) => extracted = <<>>

\* A class without identifier and label elements was reported with the
\* sentinels, and the pass went on to the class after it, which has no Codes
\* and no Synonyms element.
C22_Witness ==
  /\ tool \in SearchTypes /\ tout # "error"
  /\ pos = 3 /\ Len(OwlClasses(onto)) >= 2
  /\ OwlClasses(onto)[1].mid.kind = "absent"
  /\ OwlClasses(onto)[1].label.kind = "absent"
  /\ OwlClasses(onto)[2].codes = <<>> /\ OwlClasses(onto)[2].syns = <<>>
  /\ \E k \in 1..Len(results) :
       results[k].cls = 1 /\ results[k].mid = PyNone /\ results[k].label = NoLabelText

\* ------------------------------------------------------------------ C23
\* C23: a class whose identifier or label element has no text does not
\* abort a search pass or an update pass: the pass ends without an error and
\* has gone through every class.
C23_DefectDoesNotAbort ==
  (/\ tool \in SearchTypes \cup UpdateTools
   /\ \E k \in 1..Len(OwlClasses(onto)) : HasTextlessElement(OwlClasses(onto)[k])
   /\ tpc = "done")
    => (tout # "error" /\ pos = Len(OwlClasses(onto)) + 1)

\* ------------------------------------------------------------------ C24
\* The upward paths from id that reach a root without meeting an identifier
\* twice, depth first over the parent lists; a branch that comes back to an
\* identifier of branch gives none.
RECURSIVE CutPaths(_, _, _, _)
RECURSIVE CutPathsVia(_, _, _, _, _)
CutPaths(c2p, id, prefix, branch) ==
  LET ps == DictGet(c2p, id).val
  IN  IF id \in branch THEN <<>>
      ELSE IF ps = <<>> THEN <<prefix>>
      ELSE CutPathsVia(c2p, ps, 1, prefix, branch \cup {id})
CutPathsVia(c2p, ps, k, prefix, branch) ==
  IF k > Len(ps) THEN <<>>
  ELSE CutPaths(c2p, ps[k], Append(prefix, ps[k]), branch)
         \o CutPathsVia(c2p, ps, k + 1, prefix, branch)

\* The start identifier of the call lies on a cycle of parent edges.
StartOnCycle == LastRoot \in ReachablePlus(RevEdges(doc), LastRoot)

\* C24: in extract_parents a branch that comes back to an identifier of the
\* current branch is cut there, and every other branch is still followed to
\* its root: the recorded paths are exactly the upward paths that reach a
\* root without repeating an identifier, all their identifiers are returned,
\* each with its level in the first such path that contains it.
C24_CycleCutsOneBranch ==
  AtParentsReturn =>
    LET ps == CutPaths(ChildToParents(doc), LastRoot, <<>>, {})
    IN  /\ paths = ps
        /\ \A j \in 1..Len(ps) : Range(ps[j]) \subseteq ResultIds
        /\ \A k \in 1..Len(parent_data) :
             LET id == parent_data[k][1]
                 p  == ps[FirstPathWith(ps, id)]
             IN  parent_data[k][3] = Len(p) - PosIn(p, id)

\* The start identifier lies on a cycle and has another branch that reaches
\* a root over at least two identifiers.
C24_Witness ==
  /\ AtParentsReturn
  /\ StartOnCycle
  /\ \E k \in 1..Len(paths) : Len(paths[k]) >= 2
  /\ Len(parent_data) >= 2

\* ------------------------------------------------------------------ C25
\* The identifiers above the start identifier, and those of them that have
\* no parents.
AboveStart == ReachablePlus(RevEdges(doc), LastRoot)
RootsAbove == {x \in AboveStart : ParentsOf(doc, x) = <<>>}
\* The identifiers of a list of paths.
IdsOf(ps) == UNION {Range(ps[j]) : j \in 1..Len(ps)}

\* C25: a branch stopped by the visited guard records nothing.  The result
\* holds only identifiers of upward paths that reach a root without
\* repeating an identifier, each of them a root or below a root; when the
\* start identifier has parents and no root above it, no path is recorded,
\* the result is empty and the handler warns that no parents were found.
C25_CutBranchRecordsNothing ==
  AtParentsReturn =>
    /\ ResultIds = IdsOf(CutPaths(ChildToParents(doc), LastRoot, <<>>, {}))
    /\ \A x \in ResultIds :
         /\ x \in AboveStart
         /\ x \in RootsAbove \/ ReachablePlus(RevEdges(doc), x) \cap RootsAbove # {}
    /\ (ParentsOf(doc, LastRoot) # <<>> /\ RootsAbove = {}) =>
         /\ paths = <<>>
         /\ parent_data = <<>>
         /\ warnings # <<>> /\ Last(warnings) = LastRoot

\* Every upward branch ends in a cycle; and, in another run, an identifier
\* above the start lies only on a cut branch while a root is found.
C25_Witness ==
  /\ AtParentsReturn
  /\ ParentsOf(doc, LastRoot) # <<>>
  /\ \/ RootsAbove = {} /\ Cardinality(AboveStart) >= 2
     \/ parent_data # <<>> /\ AboveStart \ (ResultIds \cup {LastRoot}) # {}

\* ------------------------------------------------------------------ C26
\* The converse of an edge relation.
Converse(E) == {<<e[2], e[1]>> : e \in E}

\* C26: on an acyclic document the two adjacencies are converses of each
\* other, the identifiers y that extract_children returns for x are those,
\* other than x, that have x above them in the adjacency of extract_parents,
\* and the identifiers x that extract_parents returns for y are those, other
\* than y, that have y below them in the adjacency of extract_children.
C26_ChildrenAndParentsConverse ==
  Acyclic(FwdEdges(doc)) =>
    /\ JustBuilt => FwdEdges(doc) = Converse(RevEdges(doc))
    /\ AtChildrenReturn =>
         \A y \in Range(Mids) \ {LastRoot} :
           y \in ReturnedIds <=> LastRoot \in ReachablePlus(RevEdges(doc), y)
    /\ AtParentsReturn =>
         \A x \in Range(Mids) \ {LastRoot} :
           x \in ResultIds <=> LastRoot \in ReachablePlus(FwdEdges(doc), x)

\* A call on an acyclic document returned an identifier two edges away, in
\* a document with a diamond.
C26_Witness ==
  /\ Acyclic(FwdEdges(doc))
  /\ \/ AtChildrenReturn /\ \E y \in ReturnedIds :
          y \notin Succ(FwdEdges(doc), {LastRoot})
     \/ AtParentsReturn /\ \E x \in ResultIds :
          x \notin Succ(RevEdges(doc), {LastRoot})
  /\ \E a, b \in Range(Mids) : \E c \in Range(Mids) :
       /\ a # b
       /\ {<<a, c>>, <<b, c>>} \subseteq FwdEdges(doc)

\* ------------------------------------------------------------------ C27
\* The class has an rdf:about and a Mendel_ID; it has an rdf:about only.
Keyed(n) == n.about # NoAbout /\ n.mid # NoId
IdLess(n) == n.about # NoAbout /\ n.mid = NoId
\* The class at position i is the last one that carries its Mendel_ID.
LastOfId(d, i) ==
  Keyed(d[i]) /\ \A j \in (i + 1)..Len(d) : ~(Keyed(d[j]) /\ d[j].mid = d[i].mid)
\* The edges <<child id, parent id>> of the subClassOf elements that lead
\* from a class with an identifier straight to a class with an identifier.
DirectEdges(d) ==
  {<<d[e[1]].mid, d[e[2]].mid>> :
     e \in {f \in (1..Len(d)) \X (1..Len(d)) :
              /\ LastOfId(d, f[1])
              /\ Keyed(d[f[2]])
              /\ d[f[2]].about \in Range(d[f[1]].subs)}}
\* The edges <<key, entry>> of the adjacency that the call has built.
AdjEdges == UNION {{<<k, adj[k][j]>> : j \in 1..Len(adj[k])} : k \in DOMAIN adj}

\* C27: a class with an rdf:about and no Mendel_ID is in no map of the graph
\* builder, and no subClassOf element that names it or that it carries
\* becomes an edge: the edges are those between classes with identifiers,
\* and both results are confined to what these edges connect, so that a
\* class above it and a class below it are not related through it.
C27_IdLessClassCutsEdges ==
  /\ JustBuilt =>
       /\ \A i \in 1..Len(doc) : IdLess(doc[i]) =>
            /\ \A id \in DOMAIN idnode : idnode[id] # i
            /\ NoId \notin DOMAIN idnode \cup DOMAIN adj
       /\ AdjEdges = IF pc = "ascend" THEN DirectEdges(doc)
                     ELSE Converse(DirectEdges(doc))
  /\ AtChildrenReturn =>
       ReturnedIds = ReachablePlus(Converse(DirectEdges(doc)), LastRoot)
  /\ AtParentsReturn =>
       ResultIds \subseteq ReachablePlus(DirectEdges(doc), LastRoot)

\* The class of the start identifier names a class without identifier that
\* names a class with an identifier, which is not returned as an ancestor.
C27_Witness ==
  /\ AtParentsReturn
  /\ \E c, i, a \in 1..Len(doc) :
       /\ Keyed(doc[c]) /\ doc[c].mid = LastRoot
       /\ IdLess(doc[i]) /\ doc[i].about \in Range(doc[c].subs)
       /\ Keyed(doc[a]) /\ doc[a].about \in Range(doc[i].subs)
       /\ doc[a].mid \notin ResultIds

\* ------------------------------------------------------------------ C28
\* C28: after the code update of a class, get_codes returns for it every
\* code that it returned before the update and every supplied code, and no
\* code twice.
C28_ExtractorSeesUnionOnce ==
  tool = "updatecodes" =>
    \A i \in 1..Len(upload) :
      (InBatch(i) /\ Passed(i)) =>
        LET before == GetCodes(upload[i])
            after  == GetCodes(onto[i])
        IN  /\ Range(before) \subseteq Range(after)
            /\ \A v \in SuppliedFor(Strip(upload[i].mid.text)) :
                 Range(TokensOf(v)) \subseteq Range(after)
            /\ Cardinality(Range(after)) = Len(after)

\* ------------------------------------------------------------------ C29
\* The class of the uploaded document that the Parent cell of a row names.
ParentOf(row) ==
  {i \in 1..Len(upload) :
     FirstPassHolds(upload, i) /\ upload[i].about = ParentPrefix \o row.parent}

\* C29: when the insert-new-class batch has returned the document, every
\* class that it added for a row with a label, a Mendel_ID value and a parent
\* that is a class of the document is, in the document read again, reported
\* by the Mendel ID lookup and a descendant of its parent.
C29_InsertedClassIsFound ==
  (tool = "addclasses" /\ tpc = "done" /\ tout = "document") =>
    \A r \in 1..Len(input) :
      (/\ HasLabel(input[r].label)
       /\ ~CellValue(input[r].mid).none
       /\ ParentOf(input[r]) # {}) =>
        LET d  == RereadDoc(onto)
            id == CellValue(input[r].mid).str
        IN  /\ MendelIdLookup(d, {id}) # {}
            /\ \A p \in ParentOf(input[r]) :
                 id \in ReachablePlus(ParentChildEdges(d), Strip(upload[p].mid.text))

\* ------------------------------------------------------------------ C30
\* The field that the pass is to change, and the one it is to leave alone.
Target == IF tool = "updatecodes" THEN "codes" ELSE "syns"
Other == IF tool = "updatecodes" THEN "syns" ELSE "codes"
\* The identifiers of the classes of the uploaded document.
UploadIds ==
  {Strip(upload[i].mid.text) :
     i \in {j \in 1..Len(upload) : upload[j].tag = "owl" /\ upload[j].mid.kind = "text"}}

\* C30: an update pass adds and removes no class and changes, in a class
\* whose identifier is in the sheet, only the text of the first element of
\* the field, which it creates if the class has none; every other class, and
\* the identifier, label, rdf:about, subClassOf elements, other field and
\* further elements of an updated class, stay as uploaded, and a row whose
\* identifier matches no class changes nothing and is not logged.
C30_UpdateChangesTargetOnly ==
  tool \in UpdateTools =>
    /\ Len(onto) = Len(upload)
    /\ \A i \in 1..Len(upload) :
         LET was == upload[i][Target]
             now == onto[i][Target]
         IN  /\ [onto[i] EXCEPT ![Target] = was] = upload[i]
             /\ onto[i][Other] = upload[i][Other]
             /\ (~InBatch(i) \/ ~Passed(i)) => now = was
             /\ (InBatch(i) /\ Passed(i)) =>
                  /\ Len(now) = IF was = <<>> THEN 1 ELSE Len(was)
                  /\ now[1].kind = "text"
                  /\ \A k \in 2..Len(was) : now[k] = was[k]
    /\ \A k \in 1..Len(logs) : logs[k].id \in UploadIds

\* The pass returned the document: it created the element in a class,
\* left a class with other identifier as it was, and the sheet had a row
\* for an identifier of no class.
C30_Witness ==
  /\ tool \in UpdateTools /\ tpc = "done" /\ tout = "document"
  /\ Len(upload) = 2
  /\ \E i \in 1..2 : InBatch(i) /\ upload[i][Target] = <<>> /\ Len(onto[i][Target]) = 1
  /\ \E i \in 1..2 : ~InBatch(i) /\ upload[i][Other] # <<>>
  /\ \E r \in 1..Len(input) :
       ~input[r].id.none /\ Strip(input[r].id.str) \notin UploadIds


=============================================================================
